---- MODULE Spec2Model ----
(***************************************************************************)
(* A model of occam-claw: the agent tool-call loops (llm.py and            *)
(* eval/backends.py), the message handler (occam.py), the conversation     *)
(* store (store.py) and the Signal chat listener (channels/signal.py).     *)
(*                                                                         *)
(* Texts are sequences of tokens, so that concatenation (Python's += and   *)
(* "".join) is \o and the empty text is << >>.                             *)
(***************************************************************************)
EXTENDS Integers, Sequences, FiniteSets, TLC

(***************************************************************************)
(* Part 1.  The evaluation backends: eval/backends.py, eval/mock_tools.py  *)
(***************************************************************************)

VARIABLES
    backend,          \* which backend class is running: "bedrock", "converse", "ollama", or "none"
    epc,              \* position of run(): "loop", "end" (left the try block), "done" (returned)
    trace_turns,      \* CompletionTrace.turns
    trace_error,      \* CompletionTrace.error: "None" when unset, else the exception message
    trace_final_text, \* CompletionTrace.final_text
    messages,         \* the local message list of run()
    ecalls,           \* number of backend calls made by run()
    eresp             \* the responses the backend returned, in order (a call that raised returns none)

evars == <<backend, epc, trace_turns, trace_error, trace_final_text, messages, ecalls, eresp>>

\* The state of the production system (Part 2).
VARIABLES
    nextTs,           \* the next timestamp the Signal service gives a message
    feed,             \* envelopes waiting at GET /v1/receive
    nuser,            \* envelopes the owner's own devices have produced
    lpc,              \* listen(): "poll" (awaiting receive/sleep), "batch" (in the for loop), "react" (awaiting _react)
    batch,            \* listen(): the envelopes of `messages` not yet processed
    pending,          \* listen(): the message of the current envelope, built up to the await of _react
    sent_timestamps,  \* listen(): the set sent_timestamps
    thread_map,       \* store: the content of thread_map.json (key -> thread id)
    conversations,    \* store: the lines of <thread_id>.jsonl, per thread id
    nextThread,       \* the next thread id uuid4 mints
    reactions,        \* the message timestamps that carry the hourglass reaction
    tasks,            \* the handler tasks created by asyncio.create_task, in creation order
    consumed          \* the timestamps removed from sent_timestamps so far

cvars == <<nextTs, feed, nuser, lpc, batch, pending, sent_timestamps, thread_map,
           conversations, nextThread, reactions, tasks, consumed>>

vars == <<evars, cvars>>

MAX_TURNS == 10

Backends == {"bedrock", "converse", "ollama"}

\* The prompt of the test case run() is called with.
Prompt == <<"prompt">>

NoText == << >>

\* ---- responses of the model backends -------------------------------------

\* A content block of an Anthropic / Converse response.
TextBlock(t) == [type |-> "text", text |-> t, name |-> "", id |-> "", input |-> ""]
ToolUseBlock(n, i, a) == [type |-> "tool_use", text |-> NoText, name |-> n, id |-> i, input |-> a]

\* Responses with stop reason tool_use: with tool calls, and one without any.
ToolResponses ==
    { [stop_reason |-> "tool_use",
       content |-> <<ToolUseBlock("get_current_datetime", "tu_1", "none")>>],
      [stop_reason |-> "tool_use",
       content |-> <<TextBlock(<<"a">>), ToolUseBlock("web_search", "tu_1", "q"),
                     ToolUseBlock("no_such_tool", "tu_2", "none")>>],
      [stop_reason |-> "tool_use", content |-> <<TextBlock(<<"c">>)>>] }

\* Responses with a stop reason that indicates completion: with text, empty,
\* and one that holds a tool call all the same.
FinalResponses ==
    { [stop_reason |-> "end_turn", content |-> <<TextBlock(<<"b">>)>>],
      [stop_reason |-> "end_turn", content |-> << >>],
      [stop_reason |-> "end_turn",
       content |-> <<TextBlock(<<"d">>), ToolUseBlock("web_search", "tu_1", "q")>>] }

AnthropicResponses == ToolResponses \cup FinalResponses

\* An Ollama /api/chat response message: content string and raw tool calls.
OllamaToolCall(n, a) == [function |-> [name |-> n, arguments |-> a]]

OllamaResponses ==
    { [content |-> NoText, tool_calls |-> <<OllamaToolCall("get_current_datetime", "none")>>],
      [content |-> <<"a">>, tool_calls |-> <<OllamaToolCall("web_search", "q"),
                                             OllamaToolCall("no_such_tool", "none")>>],
      [content |-> <<"b">>, tool_calls |-> << >>],
      [content |-> NoText, tool_calls |-> << >>] }

\* ---- eval/mock_tools.py --------------------------------------------------

\* MOCK_RESPONSES: the Python type of the canned response of each tool.
MOCK_RESPONSES(tool_name) ==
    CASE tool_name = "get_current_datetime" -> "str"
      [] tool_name = "web_search" -> "list"
      [] tool_name = "list_calendar_events" -> "list"
      [] tool_name = "create_calendar_event" -> "dict"
      [] tool_name = "update_calendar_event" -> "dict"
      [] OTHER -> "None"

\* mock_executor: a string; json.dumps of the canned response when it is a
\* dict or a list, the response itself when it is a string, an error string
\* for an unknown tool.
mock_executor(tool_name, tool_args) ==
    LET response == MOCK_RESPONSES(tool_name) IN
    IF response = "None"
    THEN [enc |-> "plain", of |-> "error", tool |-> tool_name]
    ELSE IF response \in {"dict", "list"}
         THEN [enc |-> "json", of |-> response, tool |-> tool_name]
         ELSE [enc |-> "plain", of |-> "str", tool |-> tool_name]

\* ---- trace dataclasses ---------------------------------------------------

ToolCall(n, a, i) == [name |-> n, args |-> a, id |-> i]
Turn(calls, t) == [tool_calls |-> calls, text |-> t]

RECURSIVE JoinText(_)
\* The concatenation of the texts of the text blocks of a content list.
JoinText(content) ==
    IF content = << >> THEN NoText
    ELSE (IF Head(content).type = "text" THEN Head(content).text ELSE NoText)
         \o JoinText(Tail(content))

IsToolUse(block) == block.type = "tool_use"

\* The Turn BedrockBackend.run and ConverseBackend.run build from a response.
ParseTurn(content) ==
    LET uses == SelectSeq(content, IsToolUse) IN
    Turn([k \in 1..Len(uses) |-> ToolCall(uses[k].name, uses[k].input, uses[k].id)],
         JoinText(content))

\* The Turn OllamaBackend.run builds: ids are call_<index in the response>.
ParseOllamaTurn(msg) ==
    Turn([k \in 1..Len(msg.tool_calls) |->
            ToolCall(msg.tool_calls[k].function.name,
                     msg.tool_calls[k].function.arguments,
                     <<"call_", k - 1>>)],
         msg.content)

\* tool_results of BedrockBackend.run.
BedrockToolResults(turn) ==
    [k \in 1..Len(turn.tool_calls) |->
        [type |-> "tool_result",
         tool_use_id |-> turn.tool_calls[k].id,
         content |-> mock_executor(turn.tool_calls[k].name, turn.tool_calls[k].args)]]

\* The content block ConverseBackend.run wraps a mock result in: json.loads
\* succeeds exactly on what json.dumps produced.
ConverseContentBlock(result_str) ==
    IF result_str.enc = "json" /\ result_str.of = "dict"
    THEN [kind |-> "json", wrapped |-> FALSE, val |-> result_str.tool]
    ELSE IF result_str.enc = "json" /\ result_str.of = "list"
         THEN [kind |-> "json", wrapped |-> TRUE, val |-> result_str.tool]
         ELSE [kind |-> "text", wrapped |-> FALSE, val |-> result_str]

ConverseToolResults(turn) ==
    [k \in 1..Len(turn.tool_calls) |->
        [toolResult |->
            [toolUseId |-> turn.tool_calls[k].id,
             content |-> <<ConverseContentBlock(
                 mock_executor(turn.tool_calls[k].name, turn.tool_calls[k].args))>>]]]

\* The role=tool messages OllamaBackend.run appends, one per tool call.
OllamaToolMessages(turn) ==
    [k \in 1..Len(turn.tool_calls) |->
        [role |-> "tool",
         content |-> mock_executor(turn.tool_calls[k].name, turn.tool_calls[k].args)]]

RECURSIVE TextOfAllTurns(_)
\* final_text as the texts of all the turns, one after the other.
TextOfAllTurns(turns) ==
    IF turns = << >> THEN NoText ELSE Head(turns).text \o TextOfAllTurns(Tail(turns))

\* trace.final_text = trace.turns[-1].text if trace.turns else ""
FirstTurnText(turns) == IF turns = << >> THEN NoText ELSE turns[1].text

FinalText(turns) == IF turns = << >> THEN NoText ELSE turns[Len(turns)].text

\* ---- the run() methods ---------------------------------------------------

\* The state of run() after its set-up, before the for loop.
EvalStart(b) ==
    /\ backend = b
    /\ epc = "loop"
    /\ trace_turns = << >>
    /\ trace_error = "None"
    /\ trace_final_text = NoText
    /\ messages = IF b = "ollama"
                  THEN <<[role |-> "system", content |-> "SYSTEM_PROMPT"],
                         [role |-> "user", content |-> Prompt]>>
                  ELSE <<[role |-> "user", content |-> <<TextBlock(Prompt)>>]>>
    /\ ecalls = 0
    /\ eresp = << >>

EvalOff ==
    /\ backend = "none"
    /\ epc = "off"
    /\ trace_turns = << >>
    /\ trace_error = "None"
    /\ trace_final_text = NoText
    /\ messages = << >>
    /\ ecalls = 0
    /\ eresp = << >>

\* One iteration of the for loop of BedrockBackend.run with a response.
BedrockTurn ==
    /\ backend = "bedrock" /\ epc = "loop" /\ ecalls < MAX_TURNS
    /\ \E response \in AnthropicResponses :
         LET turn == ParseTurn(response.content) IN
         /\ ecalls' = ecalls + 1
         /\ eresp' = Append(eresp, response)
         /\ trace_turns' = Append(trace_turns, turn)
         /\ IF response.stop_reason # "tool_use"
            THEN /\ epc' = "end"
                 /\ UNCHANGED messages
            ELSE /\ messages' = messages \o
                       <<[role |-> "assistant", content |-> response.content],
                         [role |-> "user", content |-> BedrockToolResults(turn)]>>
                 /\ epc' = IF ecalls' = MAX_TURNS THEN "end" ELSE "loop"
    /\ UNCHANGED <<backend, trace_error, trace_final_text>>
    /\ UNCHANGED cvars

\* One iteration of the for loop of ConverseBackend.run with a response.
ConverseTurn ==
    /\ backend = "converse" /\ epc = "loop" /\ ecalls < MAX_TURNS
    /\ \E response \in AnthropicResponses :
         LET turn == ParseTurn(response.content) IN
         /\ ecalls' = ecalls + 1
         /\ eresp' = Append(eresp, response)
         /\ trace_turns' = Append(trace_turns, turn)
         /\ IF response.stop_reason # "tool_use"
            THEN /\ epc' = "end"
                 /\ UNCHANGED messages
            ELSE /\ messages' = messages \o
                       <<[role |-> "assistant", content |-> response.content],
                         [role |-> "user", content |-> ConverseToolResults(turn)]>>
                 /\ epc' = IF ecalls' = MAX_TURNS THEN "end" ELSE "loop"
    /\ UNCHANGED <<backend, trace_error, trace_final_text>>
    /\ UNCHANGED cvars

\* One iteration of the for loop of OllamaBackend.run with a response.
OllamaTurn ==
    /\ backend = "ollama" /\ epc = "loop" /\ ecalls < MAX_TURNS
    /\ \E msg \in OllamaResponses :
         LET turn == ParseOllamaTurn(msg) IN
         /\ ecalls' = ecalls + 1
         /\ eresp' = Append(eresp, msg)
         /\ trace_turns' = Append(trace_turns, turn)
         /\ IF turn.tool_calls = << >>
            THEN /\ epc' = "end"
                 /\ UNCHANGED messages
            ELSE /\ messages' = (messages \o <<msg>>) \o OllamaToolMessages(turn)
                 /\ epc' = IF ecalls' = MAX_TURNS THEN "end" ELSE "loop"
    /\ UNCHANGED <<backend, trace_error, trace_final_text>>
    /\ UNCHANGED cvars

\* The backend call (_invoke, _converse, _chat) raises: except Exception as e.
EvalBackendRaises ==
    /\ backend \in Backends /\ epc = "loop" /\ ecalls < MAX_TURNS
    /\ ecalls' = ecalls + 1
    /\ trace_error' = "backend error"
    /\ epc' = "end"
    /\ UNCHANGED <<backend, trace_turns, trace_final_text, messages, eresp>>
    /\ UNCHANGED cvars

\* After the try block: final_text is set and the trace returned.
EvalReturn ==
    /\ epc = "end"
    /\ trace_final_text' = FinalText(trace_turns)
    /\ epc' = "done"
    /\ UNCHANGED <<backend, trace_turns, trace_error, messages, ecalls, eresp>>
    /\ UNCHANGED cvars


(***************************************************************************)
(* Part 2.  The production system: channels/signal.py, occam.py, llm.py,   *)
(* store.py.  One Signal listener, the handler tasks it creates, the       *)
(* agent loop LLM.complete each handler runs in the executor, the store,   *)
(* and the Signal REST API as the environment.                             *)
(***************************************************************************)


\* ---- bounds of the model -------------------------------------------------

MaxUser == 2        \* envelopes produced by the owner's devices
MaxTs == 3          \* timestamps the Signal service gives out
MaxChatCalls == 2   \* backend calls of one exchange in the concurrent system
MaxCalls == 11      \* backend calls of one exchange when the loop is studied alone
OneUser == 1        \* owner messages when the loop is studied alone
MaxMedia == 1       \* payloads of the owner's devices when attachments are studied
MaxLines == 52      \* lines of a thread's file when store.load is studied

OWNER == "owner"

\* Python's None / a falsy timestamp or thread id.
None == 0

\* The thread id of the mail conversation ("email:<address>:<subject>"); the
\* other thread ids are the uuids listen() mints.
EmailThread == MaxTs + 1

ThreadIds == (1..MaxTs) \cup {EmailThread}

\* An identifier nothing was ever registered under.
UnknownTs == MaxTs + 1

\* ---- store.py ------------------------------------------------------------

MaxMessages == 50

Max(a, b) == IF a >= b THEN a ELSE b

\* store.load without the cut at max_messages.
load_all(thread_id) == conversations[thread_id]

\* store.load: the last max_messages lines of the thread's file ([] without file).
load(thread_id) ==
    LET lines == conversations[thread_id] IN
    SubSeq(lines, Max(1, Len(lines) - MaxMessages + 1), Len(lines))

\* store.append that opens the file with mode "w": the line replaces the file.
append_truncating(convs, thread_id, role, content) ==
    [convs EXCEPT ![thread_id] = <<[role |-> role, content |-> content]>>]

\* store.append: one more line {role, content} at the end of the thread's file.
append(convs, thread_id, role, content) ==
    [convs EXCEPT ![thread_id] = Append(@, [role |-> role, content |-> content])]

\* str(timestamp): the key of thread_map.json.
str(timestamp) == <<"str", timestamp>>

\* store.map_timestamp that writes its entry over a file it did not read.
map_timestamp_unread(data, timestamp, thread_id) ==
    [key \in {str(timestamp)} |-> thread_id]

\* store.map_timestamp: read the file, set data[str(timestamp)], write it back.
map_timestamp(data, timestamp, thread_id) ==
    [key \in DOMAIN data \cup {str(timestamp)} |->
        IF key = str(timestamp) THEN thread_id ELSE data[key]]

\* store.get_thread_for_timestamp: data.get(str(timestamp)).
LookupNothing(data, timestamp) == None

get_thread_for_timestamp(data, timestamp) ==
    IF str(timestamp) \in DOMAIN data THEN data[str(timestamp)] ELSE None

\* ---- channels/signal.py: envelopes ---------------------------------------

\* The text the owner writes in the message with timestamp ts.
UserText(ts) == <<"u", ToString(ts)>>

\* An envelope of the receive feed, with the fields listen() reads.
Envelope(ts, sync, text, dest, quote) ==
    [timestamp |-> ts, sentMessage |-> sync, message |-> text,
     attachments |-> << >>, group |-> FALSE, destinationNumber |-> dest, quote |-> quote]

\* An envelope with attachments or of a group.
MediaEnvelope(ts, text, atts, group, dest) ==
    [timestamp |-> ts, sentMessage |-> TRUE, message |-> text,
     attachments |-> atts, group |-> group, destinationNumber |-> dest, quote |-> None]

\* _extract_message that asks for a text.
_extract_message_text_only(data, owner_number) ==
    IF ~data.sentMessage THEN [ok |-> FALSE, sender |-> "", text |-> NoText,
                               quote_ts |-> None, attachments |-> << >>]
    ELSE IF data.message = NoText THEN [ok |-> FALSE, sender |-> "", text |-> NoText,
                                        quote_ts |-> None, attachments |-> << >>]
    ELSE IF data.group THEN [ok |-> FALSE, sender |-> "", text |-> NoText,
                             quote_ts |-> None, attachments |-> << >>]
    ELSE IF data.destinationNumber # owner_number
         THEN [ok |-> FALSE, sender |-> "", text |-> NoText, quote_ts |-> None,
               attachments |-> << >>]
    ELSE [ok |-> TRUE, sender |-> owner_number, text |-> data.message,
          quote_ts |-> data.quote, attachments |-> data.attachments]

\* _extract_message: None, or (sender, text, quote_ts, attachments).
NotExtracted == [ok |-> FALSE, sender |-> "", text |-> NoText, quote_ts |-> None,
                 attachments |-> << >>]

_extract_message(data, owner_number) ==
    IF ~data.sentMessage THEN NotExtracted
    ELSE IF data.message = NoText /\ data.attachments = << >> THEN NotExtracted
    ELSE IF data.group THEN NotExtracted
    ELSE IF data.destinationNumber # owner_number THEN NotExtracted
    ELSE [ok |-> TRUE, sender |-> owner_number, text |-> data.message,
          quote_ts |-> data.quote, attachments |-> data.attachments]

\* The sync envelope the service gives back for a message sent by _send
\* (notify_self): the payload's text, recipient and quote.
EchoEnvelope(ts, to_number, text, quote_timestamp, quote_author) ==
    Envelope(ts, TRUE, text, to_number,
             IF quote_timestamp # None /\ quote_author # "" THEN quote_timestamp ELSE None)

NoMessage == [channel |-> "none", sender |-> "", text |-> NoText, thread_id |-> None,
              quote_timestamp |-> None, msg_ts |-> None, attachments |-> << >>,
              raw_attachments |-> << >>]

\* An entry of sentMessage.attachments, and the content types that start
\* with "image/".
RawAttachment(id, contentType) == [id |-> id, contentType |-> contentType]

IsImage(content_type) == content_type \in {"image/png", "image/jpeg"}

\* Attachment(data=image_data, media_type=content_type); the bytes of an
\* attachment are named by its id.
Attachment(data, media_type) == [data |-> data, media_type |-> media_type]

\* The Message listen() builds, with what its reply closure captures
\* (_to = sender, _tid = thread_id, _msg_ts = msg_ts, _text = text).  While
\* listen() downloads, raw_attachments is what its for loop has still to
\* visit; the Message given to the handler has none left.
Message(sender, text, thread_id, quote_ts, msg_ts) ==
    [channel |-> "signal", sender |-> sender, text |-> text, thread_id |-> thread_id,
     quote_timestamp |-> quote_ts, msg_ts |-> msg_ts, attachments |-> << >>,
     raw_attachments |-> << >>]

\* ---- the environment: the owner's devices --------------------------------

\* The owner writes a Note to Self, possibly quoting a message.
UserSend(maxUser) ==
    /\ nuser < maxUser /\ nextTs <= MaxTs
    /\ \E quote \in (0..(nextTs - 1)) \cup {UnknownTs} :
         feed' = Append(feed, Envelope(nextTs, TRUE, UserText(nextTs), OWNER, quote))
    /\ nextTs' = nextTs + 1
    /\ nuser' = nuser + 1
    /\ UNCHANGED <<lpc, batch, pending, sent_timestamps, thread_map, conversations,
                   nextThread, reactions, tasks, consumed, evars>>

\* A frame that is no Note to Self arrives: a receipt (no sentMessage) or a
\* message the owner sent to somebody else.
FrameArrives(maxUser) ==
    /\ nuser < maxUser /\ nextTs <= MaxTs
    /\ \E f \in {Envelope(nextTs, FALSE, NoText, "", None),
                 Envelope(nextTs, TRUE, UserText(nextTs), "other", None)} :
         feed' = Append(feed, f)
    /\ nextTs' = nextTs + 1
    /\ nuser' = nuser + 1
    /\ UNCHANGED <<lpc, batch, pending, sent_timestamps, thread_map, conversations,
                   nextThread, reactions, tasks, consumed, evars>>

\* The attachment lists of the owner's messages: none, one image, a
\* document, and an image, a document, an image without id and an image.
AttachmentLists ==
    { << >>,
      <<RawAttachment("a1", "image/png")>>,
      <<RawAttachment("a2", "application/pdf")>>,
      <<RawAttachment("a1", "image/png"), RawAttachment("a2", "application/pdf"),
        RawAttachment("", "image/jpeg"), RawAttachment("a3", "image/jpeg")>> }

\* What the owner's devices can put on the feed with timestamp ts: sync
\* messages with or without text, with or without attachments, to the
\* owner's own number, to somebody else or to a group, and a receipt.
InboundPayloads(ts) ==
    { MediaEnvelope(ts, text, atts, group, dest) :
          text \in {UserText(ts), NoText}, atts \in AttachmentLists,
          group \in BOOLEAN, dest \in {OWNER, "other"} }
        \cup {Envelope(ts, FALSE, NoText, "", None)}

\* The owner's devices produce a payload.
PayloadArrives(maxUser) ==
    /\ nuser < maxUser /\ nextTs <= MaxTs
    /\ \E data \in InboundPayloads(nextTs) : feed' = Append(feed, data)
    /\ nextTs' = nextTs + 1
    /\ nuser' = nuser + 1
    /\ UNCHANGED <<lpc, batch, pending, sent_timestamps, thread_map, conversations,
                   nextThread, reactions, tasks, consumed, evars>>

\* ---- channels/signal.py: listen() ----------------------------------------

\* After an envelope: on to the next one, or sleep POLL_INTERVAL and poll again.
AfterEnvelope(rest) == IF rest = << >> THEN "poll" ELSE "batch"

\* GET /v1/receive answers 200 with the envelopes waiting.
Poll ==
    /\ lpc = "poll" /\ feed # << >>
    /\ batch' = feed
    /\ feed' = << >>
    /\ lpc' = "batch"
    /\ UNCHANGED <<nextTs, nuser, pending, sent_timestamps, thread_map, conversations,
                   nextThread, reactions, tasks, consumed, evars>>

\* msg_ts in sent_timestamps: discard it and continue.
SkipEcho ==
    /\ lpc = "batch" /\ batch # << >>
    /\ LET msg_ts == Head(batch).timestamp IN
       /\ msg_ts \in sent_timestamps
       /\ sent_timestamps' = sent_timestamps \ {msg_ts}
       /\ consumed' = consumed \cup {msg_ts}
    /\ batch' = Tail(batch)
    /\ lpc' = AfterEnvelope(Tail(batch))
    /\ UNCHANGED <<nextTs, feed, nuser, pending, thread_map, conversations,
                   nextThread, reactions, tasks, evars>>

\* _extract_message returns None: continue.
SkipUndispatchable ==
    /\ lpc = "batch" /\ batch # << >>
    /\ Head(batch).timestamp \notin sent_timestamps
    /\ ~_extract_message(Head(batch), OWNER).ok
    /\ batch' = Tail(batch)
    /\ lpc' = AfterEnvelope(Tail(batch))
    /\ UNCHANGED <<nextTs, feed, nuser, pending, sent_timestamps, thread_map, conversations,
                   nextThread, reactions, tasks, consumed, evars>>

\* The thread of a message: the thread of the quoted timestamp when there is
\* one and it is known, else a new uuid.
ResolveThread(data, quote_ts, fresh) ==
    LET thread_id == IF quote_ts # None THEN get_thread_for_timestamp(data, quote_ts)
                     ELSE None
    IN IF thread_id = None THEN fresh ELSE thread_id

RECURSIVE ToDownload(_)
\* The rest of raw_attachments from the first entry the loop downloads: one
\* with an id and a content type that starts with "image/".
ToDownload(raw) ==
    IF raw = << >> THEN << >>
    ELSE IF Head(raw).id # "" /\ IsImage(Head(raw).contentType) THEN raw
    ELSE ToDownload(Tail(raw))

\* A dispatchable envelope with nothing to download: determine the thread,
\* map the timestamp, and await the hourglass reaction.
Resolve ==
    /\ lpc = "batch" /\ batch # << >>
    /\ LET data == Head(batch)
           msg_ts == data.timestamp
           result == _extract_message(data, OWNER)
           thread_id == ResolveThread(thread_map, result.quote_ts, nextThread)
       IN
       /\ msg_ts \notin sent_timestamps
       /\ result.ok
       /\ ToDownload(result.attachments) = << >>
       /\ nextThread' = IF thread_id = nextThread THEN nextThread + 1 ELSE nextThread
       /\ thread_map' = IF msg_ts # None THEN map_timestamp(thread_map, msg_ts, thread_id)
                        ELSE thread_map
       /\ pending' = Message(result.sender, result.text, thread_id, result.quote_ts, msg_ts)
    /\ lpc' = "react"
    /\ UNCHANGED <<nextTs, feed, nuser, batch, sent_timestamps, conversations,
                   reactions, tasks, consumed, evars>>

\* A dispatchable envelope with an image: await its download.
DownloadStart ==
    /\ lpc = "batch" /\ batch # << >>
    /\ LET data == Head(batch)
           result == _extract_message(data, OWNER)
       IN
       /\ data.timestamp \notin sent_timestamps
       /\ result.ok
       /\ ToDownload(result.attachments) # << >>
       /\ pending' = [NoMessage EXCEPT !.raw_attachments = ToDownload(result.attachments)]
    /\ lpc' = "download"
    /\ UNCHANGED <<nextTs, feed, nuser, batch, sent_timestamps, thread_map, conversations,
                   nextThread, reactions, tasks, consumed, evars>>

\* _download_attachment returns: the bytes (status 200) or None (another
\* status).  The loop goes on to the next image; after the last one the
\* thread is determined, the timestamp mapped and the reaction awaited.
DownloadReturns ==
    /\ lpc = "download"
    /\ \E status \in {200, 404} :
         LET att == Head(pending.raw_attachments)
             attachments == IF status = 200
                            THEN Append(pending.attachments,
                                        Attachment(att.id, att.contentType))
                            ELSE pending.attachments
             rest == ToDownload(Tail(pending.raw_attachments))
             data == Head(batch)
             msg_ts == data.timestamp
             result == _extract_message(data, OWNER)
             thread_id == ResolveThread(thread_map, result.quote_ts, nextThread)
         IN
         IF rest # << >>
         THEN /\ pending' = [pending EXCEPT !.attachments = attachments,
                                            !.raw_attachments = rest]
              /\ lpc' = "download"
              /\ UNCHANGED <<thread_map, nextThread>>
         ELSE /\ nextThread' = IF thread_id = nextThread THEN nextThread + 1
                               ELSE nextThread
              /\ thread_map' = IF msg_ts # None
                               THEN map_timestamp(thread_map, msg_ts, thread_id)
                               ELSE thread_map
              /\ pending' = [Message(result.sender, result.text, thread_id,
                                     result.quote_ts, msg_ts)
                                 EXCEPT !.attachments = attachments]
              /\ lpc' = "react"
    /\ UNCHANGED <<nextTs, feed, nuser, batch, sent_timestamps, conversations,
                   reactions, tasks, consumed, evars>>

\* session.get of _download_attachment raises aiohttp.ClientError: it
\* leaves _download_attachment and the for loop into the except clause of
\* the poll loop, which sleeps and polls again.
DownloadRaises ==
    /\ lpc = "download"
    /\ pending' = NoMessage
    /\ batch' = << >>
    /\ lpc' = "poll"
    /\ UNCHANGED <<nextTs, feed, nuser, sent_timestamps, thread_map, conversations,
                   nextThread, reactions, tasks, consumed, evars>>

\* PollFails in a poll loop without except clause: the failure ends listen.
PollFailsThrough ==
    /\ lpc = "poll"
    /\ lpc' = "stopped"
    /\ UNCHANGED <<nextTs, feed, nuser, batch, pending, sent_timestamps, thread_map,
                   conversations, nextThread, reactions, tasks, consumed, evars>>

\* GET /v1/receive answers with a status other than 200, raises
\* aiohttp.ClientError or times out: the listener sleeps (POLL_INTERVAL or
\* 5 seconds).
PollFails ==
    /\ lpc = "poll"
    /\ lpc' = "backoff"
    /\ UNCHANGED <<nextTs, feed, nuser, batch, pending, sent_timestamps, thread_map,
                   conversations, nextThread, reactions, tasks, consumed, evars>>

\* The sleep after a failed poll is over: `continue`, the next GET.
PollAgain ==
    /\ lpc = "backoff"
    /\ lpc' = "poll"
    /\ UNCHANGED <<nextTs, feed, nuser, batch, pending, sent_timestamps, thread_map,
                   conversations, nextThread, reactions, tasks, consumed, evars>>

\* A handler task as asyncio.create_task leaves it.
NewTask(msg) ==
    [msg |-> msg, pc |-> "created", history |-> << >>, ncalls |-> 0, response |-> NoText,
     calendar_confirmations |-> NoText,
     post_ts |-> None, nreply |-> 0, nposts |-> 0, result |-> "running",
     backend_failed |-> FALSE, tool_raised |-> ""]

\* _react returned: create the handler task and go on with the batch.
Dispatch ==
    /\ lpc = "react"
    /\ reactions' = reactions \cup {pending.msg_ts}
    /\ tasks' = Append(tasks, NewTask(pending))
    /\ pending' = NoMessage
    /\ batch' = Tail(batch)
    /\ lpc' = AfterEnvelope(Tail(batch))
    /\ UNCHANGED <<nextTs, feed, nuser, sent_timestamps, thread_map, conversations,
                   nextThread, consumed, evars>>

\* _react raised aiohttp.ClientError: the except clause of the poll loop
\* sleeps and polls again; the rest of the batch is gone.
ReactRaises ==
    /\ lpc = "react"
    /\ pending' = NoMessage
    /\ batch' = << >>
    /\ lpc' = "poll"
    /\ UNCHANGED <<nextTs, feed, nuser, sent_timestamps, thread_map, conversations,
                   nextThread, reactions, tasks, consumed, evars>>

\* ---- channels/email.py: listen() -----------------------------------------

MaxMail == 1        \* mails of an allowed sender found UNSEEN

\* text = "**Email from:** ... **Subject:** ... body" of the mail.
EmailText == <<"mail">>

\* label = "**Re: <subject>** (from <address>)" that make_signal_reply puts
\* before the reply text.
Label == <<"Re:">>

\* The Message _poll builds for a mail: no quote, no Signal timestamp.
MailMessage ==
    [channel |-> "email", sender |-> "addr", text |-> EmailText, thread_id |-> EmailThread,
     quote_timestamp |-> None, msg_ts |-> None, attachments |-> << >>,
     raw_attachments |-> << >>]

MailTasks == {k \in DOMAIN tasks : tasks[k].msg.channel = "email"}

\* _poll finds an unseen mail of an allowed sender and schedules the handler
\* on the event loop (run_coroutine_threadsafe).
MailArrives(maxMail) ==
    /\ Cardinality(MailTasks) < maxMail
    /\ tasks' = Append(tasks, NewTask(MailMessage))
    /\ UNCHANGED <<nextTs, feed, nuser, lpc, batch, pending, sent_timestamps, thread_map,
                   conversations, nextThread, reactions, consumed, evars>>

\* ---- llm.py: the responses of the production backend ---------------------

\* The backend asks for a tool (stop reason tool_use).
ChatToolResponse ==
    [stop_reason |-> "tool_use", content |-> <<ToolUseBlock("web_search", "tu_1", "q")>>]

\* The text of the backend's answer to the message with timestamp msg_ts.
ReplyText(msg_ts) == <<"re", ToString(msg_ts)>>

\* The backend answers the exchange of the message with timestamp msg_ts.
ChatFinalResponse(msg_ts) ==
    [stop_reason |-> "end_turn", content |-> <<TextBlock(ReplyText(msg_ts))>>]

\* The backend asks for tools with some text: a calendar event to create and
\* a tool that does not exist.
ChatCalendarResponse ==
    [stop_reason |-> "tool_use",
     content |-> <<TextBlock(<<"a">>),
                   ToolUseBlock("create_calendar_event", "tu_1", "ev"),
                   ToolUseBlock("no_such_tool", "tu_2", "none")>>]

\* The backend gives stop reason tool_use with no tool_use block.
ChatBareToolUse ==
    [stop_reason |-> "tool_use", content |-> <<TextBlock(<<"c">>)>>]

\* The backend answers with a stop reason that indicates completion and a
\* tool_use block all the same.
ChatFinalWithTool(msg_ts) ==
    [stop_reason |-> "end_turn",
     content |-> <<TextBlock(ReplyText(msg_ts)), ToolUseBlock("web_search", "tu_1", "q")>>]

\* The backend asks for an update of the event at the calendar service.
ChatUpdateResponse ==
    [stop_reason |-> "tool_use",
     content |-> <<ToolUseBlock("update_calendar_event", "tu_1", "upd")>>]

\* The responses of the backend in the plain system, and in the system
\* studied for its tools.
PlainResponses(msg_ts) == {ChatToolResponse, ChatFinalResponse(msg_ts)}

ToolStudyResponses(msg_ts) ==
    {ChatCalendarResponse, ChatUpdateResponse, ChatBareToolUse,
     ChatFinalResponse(msg_ts), ChatFinalWithTool(msg_ts)}

\* ---- occam.py: handle_message._handler -----------------------------------

\* tool_executor without its last line: an unknown name falls off the end
\* and gives None.
tool_executor_falls_through(name, args) ==
    CASE name = "get_current_datetime" -> [kind |-> "str", tool |-> name]
      [] name = "web_search" -> [kind |-> "list", tool |-> name]
      [] name = "list_calendar_events" -> [kind |-> "list", tool |-> name]
      [] name = "create_calendar_event" -> [kind |-> "dict", tool |-> name]
      [] name = "update_calendar_event" -> [kind |-> "dict", tool |-> name]
      [] OTHER -> [kind |-> "None", tool |-> name]

\* What tool_executor returns when the collaborator does not raise.
tool_executor(name, args) ==
    CASE name = "get_current_datetime" -> [kind |-> "str", tool |-> name]
      [] name = "web_search" -> [kind |-> "list", tool |-> name]
      [] name = "list_calendar_events" -> [kind |-> "list", tool |-> name]
      [] name = "create_calendar_event" -> [kind |-> "dict", tool |-> name]
      [] name = "update_calendar_event" -> [kind |-> "dict", tool |-> name]
      [] OTHER -> [kind |-> "error", tool |-> name]

\* The fields of an event that a tool input or an event can hold; "" is a
\* key that is absent.
NoFields == [summary |-> "", start |-> "", end |-> "", description |-> "", location |-> ""]

\* The input dict of a tool_use block, which the model names by a token:
\* "ev" a new event, "upd" new values for the title, the start and the
\* location of the event at the service.
ToolInput(a) ==
    CASE a = "ev" -> [summary |-> "Standup", start |-> "t1", end |-> "t2",
                      description |-> "", location |-> ""]
      [] a \in {"upd", "upd_popped"} ->
                     [summary |-> "Retro", start |-> "t3", end |-> "",
                      description |-> "", location |-> "Room 2"]
      [] OTHER -> NoFields

\* The input dict of an update holds the key event_id as the model emits it
\* ("upd"); args.pop("event_id") of tool_executor takes the key out of the
\* dict it is given ("upd_popped").
HasEventId(a) == a = "upd"

PopEventId(a) == IF a = "upd" THEN "upd_popped" ELSE a

\* A content block after LLM.complete has called tool_executor for it:
\* block["input"] is the dict the executor was given.
Executed(block) ==
    IF block.type = "tool_use" /\ block.name = "update_calendar_event"
    THEN [block EXCEPT !.input = PopEventId(@)]
    ELSE block

\* response["content"] after the for loop over its blocks.
ExecutedContent(content) == [j \in DOMAIN content |-> Executed(content[j])]

\* The event update_event finds at the calendar service.
ExistingEvent ==
    [summary |-> "Standup", start |-> "t1", end |-> "t2", description |-> "",
     location |-> "Room 1"]

\* _fmt_time: the friendly form of an ISO datetime.
_fmt_time(iso) == <<"fmt", iso>>

\* result.get("old", {}): the dicts create_event and update_event return
\* hold id, summary and link.
ResultOld(result) == IF "old" \in DOMAIN result THEN result.old ELSE NoFields

\* The lines of the block for an update whose result holds the old values.
DiffLines(old, a) ==
    (IF a.summary # "" /\ a.summary # old.summary
     THEN <<"Title:", old.summary, "->", a.summary>>
     ELSE <<"Title:", IF a.summary # "" THEN a.summary ELSE old.summary>>)
    \o (IF a.start # "" /\ a.start # old.start
        THEN (<<"Start:">> \o _fmt_time(old.start)) \o (<<"->">> \o _fmt_time(a.start))
        ELSE IF a.start # "" THEN <<"Start:">> \o _fmt_time(a.start) ELSE << >>)
    \o (IF a.end # "" /\ a.end # old.end
        THEN (<<"End:">> \o _fmt_time(old.end)) \o (<<"->">> \o _fmt_time(a.end))
        ELSE IF a.end # "" THEN <<"End:">> \o _fmt_time(a.end) ELSE << >>)
    \o (IF a.description # "" /\ a.description # old.description
        THEN IF old.description # ""
             THEN <<"Description:", old.description, "->", a.description>>
             ELSE <<"Description:", a.description>>
        ELSE << >>)
    \o (IF a.location # "" /\ a.location # old.location
        THEN IF old.location # ""
             THEN <<"Location:", old.location, "->", a.location>>
             ELSE <<"Location:", a.location>>
        ELSE << >>)

\* The lines of the block otherwise: the values of the input.
PlainLines(a) ==
    (IF a.summary # "" THEN <<"Title:", a.summary>> ELSE << >>)
    \o (IF a.start # "" THEN <<"Start:">> \o _fmt_time(a.start) ELSE << >>)
    \o (IF a.end # "" THEN <<"End:">> \o _fmt_time(a.end) ELSE << >>)
    \o (IF a.description # "" THEN <<"Description:", a.description>> ELSE << >>)
    \o (IF a.location # "" THEN <<"Location:", a.location>> ELSE << >>)

\* _format_calendar_action: the confirmation block of a calendar tool call
\* whose result is a dict with an id, None (no text) otherwise.
_format_calendar_action(name, args, result) ==
    IF result.kind # "dict" THEN NoText
    ELSE IF name \notin {"create_calendar_event", "update_calendar_event"} THEN NoText
    ELSE LET old == ResultOld(result)
             is_update == name = "update_calendar_event" /\ old # NoFields
             label == IF name = "create_calendar_event" THEN "**Event Created**"
                      ELSE "**Event Updated**"
         IN (<<"---", label>>
             \o (IF is_update THEN DiffLines(old, ToolInput(args))
                 ELSE PlainLines(ToolInput(args))))
            \o <<"Link:", "htmlLink">>

RECURSIVE Confirmations(_)
\* What the tool_executor calls of the tool_use blocks of one response add to
\* calendar_confirmations, in order.
Confirmations(content) ==
    IF content = << >> THEN NoText
    ELSE (IF IsToolUse(Head(content))
             /\ Head(content).name \in {"create_calendar_event", "update_calendar_event"}
          THEN _format_calendar_action(Head(content).name, Head(content).input,
                                       tool_executor(Head(content).name, Head(content).input))
          ELSE NoText)
         \o Confirmations(Tail(content))

\* The responses the backend can give in an exchange.
ChatResponses(msg_ts, study) ==
    IF study THEN ToolStudyResponses(msg_ts) ELSE PlainResponses(msg_ts)

\* The tools whose collaborator call (network) can raise.
ToolMayRaise(name) ==
    name \in {"web_search", "list_calendar_events", "create_calendar_event",
              "update_calendar_event"}

\* str(result) of LLM.complete: a result that is a str is itself (the
\* strings mock_executor returns, the string of get_current_datetime), any
\* other result is turned into its text.
StrOfResult(result) ==
    IF "enc" \in DOMAIN result THEN result
    ELSE IF result.kind = "str" THEN result
    ELSE str(result)

\* tool_results of LLM.complete: one tool_result per tool_use block, in order.
CompleteToolResults(content) ==
    LET uses == SelectSeq(content, IsToolUse) IN
    [j \in 1..Len(uses) |->
        [type |-> "tool_result",
         tool_use_id |-> uses[j].id,
         content |-> StrOfResult(tool_executor(uses[j].name, uses[j].input))]]

\* The tool executors LLM.complete can be called with: the closure of the
\* handler, and mock_executor of the evaluation.
Executors == {"tool_executor", "mock_executor"}

ExecutorResult(exec, name, args) ==
    IF exec = "mock_executor" THEN mock_executor(name, args) ELSE tool_executor(name, args)

\* tool_results of LLM.complete called with the executor exec.
CompleteToolResultsWith(content, exec) ==
    LET uses == SelectSeq(content, IsToolUse) IN
    [j \in 1..Len(uses) |->
        [type |-> "tool_result",
         tool_use_id |-> uses[j].id,
         content |-> StrOfResult(ExecutorResult(exec, uses[j].name, uses[j].input))]]

\* response["content"] after the executor exec has been called for its
\* blocks: mock_executor leaves its arguments alone.
ContentAfter(content, exec) ==
    IF exec = "mock_executor" THEN content ELSE ExecutedContent(content)

\* The tool calls LLM.complete makes for a response, in order.
CompleteToolCalls(content) ==
    LET uses == SelectSeq(content, IsToolUse) IN
    [j \in 1..Len(uses) |-> ToolCall(uses[j].name, uses[j].input, uses[j].id)]

RECURSIVE complete_joining_all(_, _, _)
\* LLM.complete that returns the text of every response, not of the last.
complete_joining_all(msgs, responses, exec) ==
    LET response == Head(responses) IN
    IF response.stop_reason = "tool_use" /\ Len(responses) > 1
    THEN LET rest == complete_joining_all(
                         msgs \o <<[role |-> "assistant",
                                    content |-> ContentAfter(response.content, exec)],
                                   [role |-> "user",
                                    content |-> CompleteToolResultsWith(response.content,
                                                                        exec)]>>,
                         Tail(responses), exec)
         IN [sent |-> <<msgs>> \o rest.sent,
             executed |-> CompleteToolCalls(response.content) \o rest.executed,
             text |-> JoinText(response.content) \o rest.text]
    ELSE [sent |-> <<msgs>>, executed |-> << >>, text |-> JoinText(response.content)]

RECURSIVE complete(_, _, _)
\* LLM.complete(messages, tool_executor) as a function of the responses
\* _invoke returns, the last of which has a stop reason other than tool_use:
\* the message lists it sends, the tool calls it executes, the text it returns.
complete(msgs, responses, exec) ==
    LET response == Head(responses) IN
    IF response.stop_reason = "tool_use" /\ Len(responses) > 1
    THEN LET rest == complete(
                         msgs \o <<[role |-> "assistant",
                                    content |-> ContentAfter(response.content, exec)],
                                   [role |-> "user",
                                    content |-> CompleteToolResultsWith(response.content,
                                                                        exec)]>>,
                         Tail(responses), exec)
         IN [sent |-> <<msgs>> \o rest.sent,
             executed |-> CompleteToolCalls(response.content) \o rest.executed,
             text |-> rest.text]
    ELSE [sent |-> <<msgs>>, executed |-> << >>, text |-> JoinText(response.content)]

SetTask(k, t) == tasks' = [tasks EXCEPT ![k] = t]

\* Finished with an except clause that sends a failure note through reply.
FinishedWithNote(t, result) ==
    [t EXCEPT !.pc = "done", !.result = result, !.history = << >>, !.ncalls = 0,
              !.response = NoText, !.calendar_confirmations = NoText,
              !.nreply = IF result = "error" THEN @ + 1 ELSE @]

\* The handler returned (result "ok") or logged an exception ("error"): its
\* locals are gone.
Finished(t, result) ==
    [t EXCEPT !.pc = "done", !.result = result, !.history = << >>, !.ncalls = 0,
              !.response = NoText, !.calendar_confirmations = NoText]

\* Past the two appends the handler reads neither history nor what complete
\* counted; only the reply closure is still at work.
Replying(t, sent_ts, posted) ==
    [t EXCEPT !.pc = "sending", !.nreply = @ + 1, !.nposts = @ + posted,
              !.post_ts = sent_ts, !.history = << >>, !.ncalls = 0,
              !.calendar_confirmations = NoText]

RECURSIVE ImageBlocks(_)
\* The image blocks of the attachments, as the tokens of their JSON form:
\* {"type": "image", "source": {media_type, data (base64)}}.
ImageBlocks(attachments) ==
    IF attachments = << >> THEN << >>
    ELSE <<"{image", Head(attachments).media_type, "b64", Head(attachments).data, "}">>
         \o ImageBlocks(Tail(attachments))

\* The content of the user message the handler gives the model: the text,
\* or with attachments the block list (image blocks, then a text block).
UserContent(msg) ==
    IF msg.attachments # << >>
    THEN ImageBlocks(msg.attachments)
         \o <<"{text">>
         \o (IF msg.text # NoText THEN msg.text ELSE <<"What is this image?">>)
         \o <<"}">>
    ELSE msg.text

\* HandlerStart of a handler the listener awaits inline (as the command-line
\* channel does with `await on_message(...)`): it starts only when no other
\* exchange is under way.
HandlerStartInline(k) ==
    /\ tasks[k].pc = "created"
    /\ \A j \in DOMAIN tasks : tasks[j].pc \notin {"llm", "persist", "sending", "unreact"}
    /\ SetTask(k, [tasks[k] EXCEPT
           !.history = Append(load(tasks[k].msg.thread_id),
                              [role |-> "user", content |-> UserContent(tasks[k].msg)]),
           !.pc = "llm"])
    /\ UNCHANGED <<nextTs, feed, nuser, lpc, batch, pending, sent_timestamps, thread_map,
                   conversations, nextThread, reactions, consumed, evars>>

\* HandlerStart of a handler that writes the user turn to the store as soon
\* as it has built it.
HandlerStartAppending(k) ==
    /\ tasks[k].pc = "created"
    /\ SetTask(k, [tasks[k] EXCEPT
           !.history = Append(load(tasks[k].msg.thread_id),
                              [role |-> "user", content |-> UserContent(tasks[k].msg)]),
           !.pc = "llm"])
    /\ conversations' = append(conversations, tasks[k].msg.thread_id, "user",
                               tasks[k].msg.text)
    /\ UNCHANGED <<nextTs, feed, nuser, lpc, batch, pending, sent_timestamps, thread_map,
                   nextThread, reactions, consumed, evars>>

\* The handler up to `await loop.run_in_executor(None, llm.complete, ...)`.
HandlerStart(k) ==
    /\ tasks[k].pc = "created"
    /\ SetTask(k, [tasks[k] EXCEPT
           !.history = Append(load(tasks[k].msg.thread_id),
                              [role |-> "user", content |-> UserContent(tasks[k].msg)]),
           !.pc = "llm"])
    /\ UNCHANGED <<nextTs, feed, nuser, lpc, batch, pending, sent_timestamps, thread_map,
                   conversations, nextThread, reactions, consumed, evars>>

\* store.load raises: caught by `except Exception` of the handler.
HandlerLoadRaises(k) ==
    /\ tasks[k].pc = "created"
    /\ SetTask(k, Finished(tasks[k], "error"))
    /\ UNCHANGED <<nextTs, feed, nuser, lpc, batch, pending, sent_timestamps, thread_map,
                   conversations, nextThread, reactions, consumed, evars>>

\* LLM.complete: one call of _invoke that returns, and what the loop does
\* with the response (tool_executor is the handler's closure, always set);
\* when complete returns, the handler adds the calendar confirmations.
LLMCall(k, cap, study) ==
    /\ tasks[k].pc = "llm" /\ tasks[k].ncalls < cap
    /\ \E response \in ChatResponses(tasks[k].msg.msg_ts, study) :
         IF response.stop_reason = "tool_use"
         THEN SetTask(k, [tasks[k] EXCEPT
                  !.ncalls = @ + 1,
                  !.calendar_confirmations = @ \o Confirmations(response.content),
                  !.history = @ \o
                      <<[role |-> "assistant", content |-> ExecutedContent(response.content)],
                        [role |-> "user", content |-> CompleteToolResults(response.content)]>>])
         ELSE SetTask(k, [tasks[k] EXCEPT
                  !.ncalls = @ + 1,
                  !.response = JoinText(response.content) \o tasks[k].calendar_confirmations,
                  !.pc = "persist"])
    /\ UNCHANGED <<nextTs, feed, nuser, lpc, batch, pending, sent_timestamps, thread_map,
                   conversations, nextThread, reactions, consumed, evars>>

\* LLMRaises in a handler without except clause, run inline by the poll
\* loop: the exception ends listen.
LLMRaisesThrough(k, cap) ==
    /\ tasks[k].pc = "llm" /\ tasks[k].ncalls < cap
    /\ SetTask(k, Finished([tasks[k] EXCEPT !.backend_failed = TRUE], "error"))
    /\ lpc' = "stopped"
    /\ batch' = << >>
    /\ pending' = NoMessage
    /\ UNCHANGED <<nextTs, feed, nuser, sent_timestamps, thread_map,
                   conversations, nextThread, reactions, consumed, evars>>

\* _invoke raises (invoke_model fails): the exception leaves complete, the
\* executor future and the await, into `except Exception` of the handler.
LLMRaises(k, cap) ==
    /\ tasks[k].pc = "llm" /\ tasks[k].ncalls < cap
    /\ SetTask(k, Finished([tasks[k] EXCEPT !.backend_failed = TRUE], "error"))
    /\ UNCHANGED <<nextTs, feed, nuser, lpc, batch, pending, sent_timestamps, thread_map,
                   conversations, nextThread, reactions, consumed, evars>>

\* The backend asks for a tool and the tool's collaborator raises inside
\* tool_executor: nothing in complete catches it.
ToolRaises(k, cap, study) ==
    /\ tasks[k].pc = "llm" /\ tasks[k].ncalls < cap
    /\ \E response \in ChatResponses(tasks[k].msg.msg_ts, study) :
         /\ response.stop_reason = "tool_use"
         /\ \E j \in 1..Len(response.content) :
               /\ IsToolUse(response.content[j])
               /\ ToolMayRaise(response.content[j].name)
               /\ SetTask(k, Finished([tasks[k] EXCEPT
                                          !.tool_raised = response.content[j].name],
                                      "error"))
    /\ UNCHANGED <<nextTs, feed, nuser, lpc, batch, pending, sent_timestamps, thread_map,
                   conversations, nextThread, reactions, consumed, evars>>

\* The handler with its two appends in the other order.
PersistedSwapped(k) ==
    append(append(conversations, tasks[k].msg.thread_id, "assistant", tasks[k].response),
           tasks[k].msg.thread_id, "user", tasks[k].msg.text)

\* The handler with the assistant append only.
PersistedAssistantOnly(k) ==
    append(conversations, tasks[k].msg.thread_id, "assistant", tasks[k].response)

\* store.append(user), store.append(assistant) of the handler.
Persisted(k) ==
    append(append(conversations, tasks[k].msg.thread_id, "user", tasks[k].msg.text),
           tasks[k].msg.thread_id, "assistant", tasks[k].response)

\* The sync copy of the message the reply capability of msg sends with text
\* resp: listen's reply quotes the message it answers; the reply made by
\* make_signal_reply goes to the owner's number with the label and no quote.
ReplyEnvelope(ts, msg, resp) ==
    IF msg.channel = "email"
    THEN EchoEnvelope(ts, OWNER, Label \o resp, None, "")
    ELSE EchoEnvelope(ts, msg.sender, resp, msg.msg_ts, msg.sender)

\* complete returned: the two appends, then msg.reply(response) up to the
\* POST /v2/send of _send, which the service answers 201: the message is out
\* with a timestamp and its sync copy is on the receive feed.
PersistAndSend(k) ==
    /\ tasks[k].pc = "persist" /\ nextTs <= MaxTs
    /\ conversations' = Persisted(k)
    /\ feed' = Append(feed, ReplyEnvelope(nextTs, tasks[k].msg, tasks[k].response))
    /\ nextTs' = nextTs + 1
    /\ SetTask(k, Replying(tasks[k], nextTs, 1))
    /\ UNCHANGED <<nuser, lpc, batch, pending, sent_timestamps, thread_map,
                   nextThread, reactions, consumed, evars>>

\* The same, but the service answers the POST with a status other than 201:
\* no message goes out and _send returns None.
PersistSendRejected(k) ==
    /\ tasks[k].pc = "persist"
    /\ conversations' = Persisted(k)
    /\ SetTask(k, Replying(tasks[k], None, 0))
    /\ UNCHANGED <<nextTs, feed, nuser, lpc, batch, pending, sent_timestamps, thread_map,
                   nextThread, reactions, consumed, evars>>

\* The same, but the POST raises aiohttp.ClientError: it leaves _send and
\* reply into `except Exception` of the handler.
PersistSendRaises(k) ==
    /\ tasks[k].pc = "persist"
    /\ conversations' = Persisted(k)
    /\ SetTask(k, Finished([tasks[k] EXCEPT !.nreply = @ + 1], "error"))
    /\ UNCHANGED <<nextTs, feed, nuser, lpc, batch, pending, sent_timestamps, thread_map,
                   nextThread, reactions, consumed, evars>>

\* store.append raises, at the first append or at the second.
AppendRaises(k) ==
    /\ tasks[k].pc = "persist"
    /\ \/ UNCHANGED conversations
       \/ conversations' = append(conversations, tasks[k].msg.thread_id, "user",
                                  tasks[k].msg.text)
    /\ SetTask(k, Finished(tasks[k], "error"))
    /\ UNCHANGED <<nextTs, feed, nuser, lpc, batch, pending, sent_timestamps, thread_map,
                   nextThread, reactions, consumed, evars>>

\* ReplyResume without store.map_timestamp(int(sent_ts), _tid).
ReplyResumeNoMap(k) ==
    /\ tasks[k].pc = "sending" /\ tasks[k].msg.channel = "signal"
    /\ LET sent_ts == tasks[k].post_ts IN
       IF sent_ts # None
       THEN sent_timestamps' = sent_timestamps \cup {sent_ts}
       ELSE UNCHANGED sent_timestamps
    /\ IF tasks[k].msg.msg_ts # None
       THEN SetTask(k, [tasks[k] EXCEPT !.pc = "unreact"])
       ELSE SetTask(k, Finished(tasks[k], "ok"))
    /\ UNCHANGED <<nextTs, feed, nuser, lpc, batch, pending, conversations, thread_map,
                   nextThread, reactions, consumed, evars>>

\* reply() after `await _send`: register the sent timestamp, then await
\* _remove_react.
ReplyResume(k) ==
    /\ tasks[k].pc = "sending" /\ tasks[k].msg.channel = "signal"
    /\ LET sent_ts == tasks[k].post_ts IN
       IF sent_ts # None
       THEN /\ sent_timestamps' = sent_timestamps \cup {sent_ts}
            /\ thread_map' = map_timestamp(thread_map, sent_ts, tasks[k].msg.thread_id)
       ELSE UNCHANGED <<sent_timestamps, thread_map>>
    /\ IF tasks[k].msg.msg_ts # None
       THEN SetTask(k, [tasks[k] EXCEPT !.pc = "unreact"])
       ELSE SetTask(k, Finished(tasks[k], "ok"))
    /\ UNCHANGED <<nextTs, feed, nuser, lpc, batch, pending, conversations,
                   nextThread, reactions, consumed, evars>>

\* The reply made by make_signal_reply after `await signal_send`: map the
\* sent timestamp to the mail's thread; the handler logs "Reply sent".
MailReplyResume(k) ==
    /\ tasks[k].pc = "sending" /\ tasks[k].msg.channel = "email"
    /\ LET sent_ts == tasks[k].post_ts IN
       IF sent_ts # None
       THEN thread_map' = map_timestamp(thread_map, sent_ts, tasks[k].msg.thread_id)
       ELSE UNCHANGED thread_map
    /\ SetTask(k, Finished(tasks[k], "ok"))
    /\ UNCHANGED <<nextTs, feed, nuser, lpc, batch, pending, sent_timestamps, conversations,
                   nextThread, reactions, consumed, evars>>

\* _remove_react returned: reply returns and the handler logs "Reply sent".
HandlerFinish(k) ==
    /\ tasks[k].pc = "unreact"
    /\ reactions' = reactions \ {tasks[k].msg.msg_ts}
    /\ SetTask(k, Finished(tasks[k], "ok"))
    /\ UNCHANGED <<nextTs, feed, nuser, lpc, batch, pending, sent_timestamps, thread_map,
                   conversations, nextThread, consumed, evars>>

\* _remove_react raised aiohttp.ClientError: `except Exception` of the handler.
RemoveReactRaises(k) ==
    /\ tasks[k].pc = "unreact"
    /\ SetTask(k, Finished(tasks[k], "error"))
    /\ UNCHANGED <<nextTs, feed, nuser, lpc, batch, pending, sent_timestamps, thread_map,
                   conversations, nextThread, reactions, consumed, evars>>

\* ---- specifications ------------------------------------------------------

\* The chat system after start-up: nothing received, nothing stored.
ChatInit ==
    /\ nextTs = 1
    /\ feed = << >>
    /\ nuser = 0
    /\ lpc = "poll"
    /\ batch = << >>
    /\ pending = NoMessage
    /\ sent_timestamps = {}
    /\ thread_map = << >>
    /\ conversations = [t \in ThreadIds |-> << >>]
    /\ nextThread = 1
    /\ reactions = {}
    /\ tasks = << >>
    /\ consumed = {}

Init == EvalOff /\ ChatInit

\* The chat system with concurrent exchanges.
Next ==
    \/ UserSend(MaxUser) \/ FrameArrives(MaxUser)
    \/ Poll \/ SkipEcho \/ SkipUndispatchable \/ Resolve \/ Dispatch \/ ReactRaises
    \/ \E k \in DOMAIN tasks : HandlerStart(k)
    \/ \E k \in DOMAIN tasks : HandlerLoadRaises(k)
    \/ \E k \in DOMAIN tasks : LLMCall(k, MaxChatCalls, FALSE)
    \/ \E k \in DOMAIN tasks : LLMRaises(k, MaxChatCalls)
    \/ \E k \in DOMAIN tasks : ToolRaises(k, MaxChatCalls, FALSE)
    \/ \E k \in DOMAIN tasks : PersistAndSend(k)
    \/ \E k \in DOMAIN tasks : PersistSendRejected(k)
    \/ \E k \in DOMAIN tasks : PersistSendRaises(k)
    \/ \E k \in DOMAIN tasks : AppendRaises(k)
    \/ \E k \in DOMAIN tasks : ReplyResume(k)
    \/ \E k \in DOMAIN tasks : HandlerFinish(k)
    \/ \E k \in DOMAIN tasks : RemoveReactRaises(k)

Spec == Init /\ [][Next]_vars

\* The chat system with one owner message, to follow the agent loop of an
\* exchange over many backend calls.
NextLoop ==
    \/ UserSend(OneUser) \/ FrameArrives(OneUser)
    \/ Poll \/ SkipEcho \/ SkipUndispatchable \/ Resolve \/ Dispatch \/ ReactRaises
    \/ \E k \in DOMAIN tasks : HandlerStart(k)
    \/ \E k \in DOMAIN tasks : HandlerLoadRaises(k)
    \/ \E k \in DOMAIN tasks : LLMCall(k, MaxCalls, FALSE)
    \/ \E k \in DOMAIN tasks : LLMRaises(k, MaxCalls)
    \/ \E k \in DOMAIN tasks : ToolRaises(k, MaxCalls, FALSE)
    \/ \E k \in DOMAIN tasks : PersistAndSend(k)
    \/ \E k \in DOMAIN tasks : PersistSendRejected(k)
    \/ \E k \in DOMAIN tasks : PersistSendRaises(k)
    \/ \E k \in DOMAIN tasks : AppendRaises(k)
    \/ \E k \in DOMAIN tasks : ReplyResume(k)
    \/ \E k \in DOMAIN tasks : HandlerFinish(k)
    \/ \E k \in DOMAIN tasks : RemoveReactRaises(k)

SpecLoop == Init /\ [][NextLoop]_vars

\* One run of an evaluation backend.
InitEval == (\E b \in Backends : EvalStart(b)) /\ ChatInit

NextEval == BedrockTurn \/ ConverseTurn \/ OllamaTurn \/ EvalBackendRaises \/ EvalReturn

SpecEval == InitEval /\ [][NextEval]_vars

\* Every loop implementation: either one run of an evaluation backend, or
\* the production system with the responses of the tool study.
InitTools == InitEval \/ Init

ProductionRuns == backend = "none"

NextTools ==
    \/ BedrockTurn \/ ConverseTurn \/ OllamaTurn \/ EvalBackendRaises \/ EvalReturn
    \/ ProductionRuns /\ UserSend(MaxUser)
    \/ ProductionRuns /\ FrameArrives(MaxUser)
    \/ ProductionRuns /\ Poll
    \/ ProductionRuns /\ SkipEcho
    \/ ProductionRuns /\ SkipUndispatchable
    \/ ProductionRuns /\ Resolve
    \/ ProductionRuns /\ Dispatch
    \/ ProductionRuns /\ ReactRaises
    \/ \E k \in DOMAIN tasks : HandlerStart(k)
    \/ \E k \in DOMAIN tasks : HandlerLoadRaises(k)
    \/ \E k \in DOMAIN tasks : LLMCall(k, MaxChatCalls, TRUE)
    \/ \E k \in DOMAIN tasks : LLMRaises(k, MaxChatCalls)
    \/ \E k \in DOMAIN tasks : ToolRaises(k, MaxChatCalls, TRUE)
    \/ \E k \in DOMAIN tasks : PersistAndSend(k)
    \/ \E k \in DOMAIN tasks : PersistSendRejected(k)
    \/ \E k \in DOMAIN tasks : PersistSendRaises(k)
    \/ \E k \in DOMAIN tasks : AppendRaises(k)
    \/ \E k \in DOMAIN tasks : ReplyResume(k)
    \/ \E k \in DOMAIN tasks : HandlerFinish(k)
    \/ \E k \in DOMAIN tasks : RemoveReactRaises(k)

SpecTools == InitTools /\ [][NextTools]_vars

\* The Signal listener and the mail listener side by side, as main() runs
\* them with both channels enabled: one owner message and one mail.
NextInbound ==
    \/ UserSend(OneUser) \/ FrameArrives(OneUser) \/ MailArrives(MaxMail)
    \/ Poll \/ SkipEcho \/ SkipUndispatchable \/ Resolve \/ Dispatch \/ ReactRaises
    \/ \E k \in DOMAIN tasks : HandlerStart(k)
    \/ \E k \in DOMAIN tasks : HandlerLoadRaises(k)
    \/ \E k \in DOMAIN tasks : LLMCall(k, MaxChatCalls, FALSE)
    \/ \E k \in DOMAIN tasks : LLMRaises(k, MaxChatCalls)
    \/ \E k \in DOMAIN tasks : ToolRaises(k, MaxChatCalls, FALSE)
    \/ \E k \in DOMAIN tasks : PersistAndSend(k)
    \/ \E k \in DOMAIN tasks : PersistSendRejected(k)
    \/ \E k \in DOMAIN tasks : PersistSendRaises(k)
    \/ \E k \in DOMAIN tasks : AppendRaises(k)
    \/ \E k \in DOMAIN tasks : ReplyResume(k)
    \/ \E k \in DOMAIN tasks : MailReplyResume(k)
    \/ \E k \in DOMAIN tasks : HandlerFinish(k)
    \/ \E k \in DOMAIN tasks : RemoveReactRaises(k)

SpecInbound == Init /\ [][NextInbound]_vars

\* The Signal listener with every kind of payload, attachments to
\* download, and polls that fail.
NextMedia ==
    \/ PayloadArrives(MaxMedia)
    \/ Poll \/ PollFails \/ PollAgain
    \/ SkipEcho \/ SkipUndispatchable \/ Resolve
    \/ DownloadStart \/ DownloadReturns \/ DownloadRaises
    \/ Dispatch \/ ReactRaises
    \/ \E k \in DOMAIN tasks : HandlerStart(k)
    \/ \E k \in DOMAIN tasks : HandlerLoadRaises(k)
    \/ \E k \in DOMAIN tasks : LLMCall(k, MaxChatCalls, FALSE)
    \/ \E k \in DOMAIN tasks : LLMRaises(k, MaxChatCalls)
    \/ \E k \in DOMAIN tasks : ToolRaises(k, MaxChatCalls, FALSE)
    \/ \E k \in DOMAIN tasks : PersistAndSend(k)
    \/ \E k \in DOMAIN tasks : PersistSendRejected(k)
    \/ \E k \in DOMAIN tasks : PersistSendRaises(k)
    \/ \E k \in DOMAIN tasks : AppendRaises(k)
    \/ \E k \in DOMAIN tasks : ReplyResume(k)
    \/ \E k \in DOMAIN tasks : HandlerFinish(k)
    \/ \E k \in DOMAIN tasks : RemoveReactRaises(k)

SpecMedia == Init /\ [][NextMedia]_vars

\* The file of the mail thread as earlier runs of the program left it: n
\* lines, user and assistant turns in turn.
StoredLines(n) ==
    [i \in 1..n |-> [role |-> IF i % 2 = 1 THEN "user" ELSE "assistant",
                     content |-> <<"m", ToString(i)>>]]

\* The program starts with the mail channel alone and a mail thread that
\* has a history on disk.
InitStore ==
    /\ EvalOff
    /\ nextTs = 1
    /\ feed = << >>
    /\ nuser = 0
    /\ lpc = "poll"
    /\ batch = << >>
    /\ pending = NoMessage
    /\ sent_timestamps = {}
    /\ thread_map = << >>
    /\ \E n \in 0..MaxLines :
          conversations = [t \in ThreadIds |->
                              IF t = EmailThread THEN StoredLines(n) ELSE << >>]
    /\ nextThread = 1
    /\ reactions = {}
    /\ tasks = << >>
    /\ consumed = {}

NextStore ==
    \/ MailArrives(MaxMail)
    \/ \E k \in DOMAIN tasks : HandlerStart(k)
    \/ \E k \in DOMAIN tasks : HandlerLoadRaises(k)
    \/ \E k \in DOMAIN tasks : LLMCall(k, MaxChatCalls, FALSE)
    \/ \E k \in DOMAIN tasks : LLMRaises(k, MaxChatCalls)
    \/ \E k \in DOMAIN tasks : ToolRaises(k, MaxChatCalls, FALSE)
    \/ \E k \in DOMAIN tasks : PersistAndSend(k)
    \/ \E k \in DOMAIN tasks : PersistSendRejected(k)
    \/ \E k \in DOMAIN tasks : PersistSendRaises(k)
    \/ \E k \in DOMAIN tasks : AppendRaises(k)
    \/ \E k \in DOMAIN tasks : MailReplyResume(k)

SpecStore == InitStore /\ [][NextStore]_vars

\* What the listener does when an await of its loop is over.  Each of them
\* ends: asyncio.sleep is bounded, and the requests of _download_attachment
\* and _react run under the total timeout of their ClientSession.
ListenerStep ==
    \/ PollAgain
    \/ SkipEcho \/ SkipUndispatchable \/ Resolve
    \/ DownloadStart \/ DownloadReturns \/ DownloadRaises
    \/ Dispatch \/ ReactRaises

\* SpecMedia with the event loop resuming the listener whenever it can run.
SpecMediaLive == SpecMedia /\ WF_vars(ListenerStep)

(***************************************************************************)
(* Part 3.  The claims.                                                    *)
(***************************************************************************)

TaskIds == DOMAIN tasks

\* C1: the agent loop LLM.complete run by the handler makes at most 10
\* backend calls, also when every response has stop reason tool_use.
C1_AtMostTenCalls == \A k \in TaskIds : tasks[k].ncalls <= 10

\* A response of an evaluation backend that asks for a tool.
IsToolRequest(b, r) ==
    IF b = "ollama" THEN r.tool_calls # << >>
    ELSE /\ r.stop_reason = "tool_use"
         /\ \E j \in 1..Len(r.content) : r.content[j].type = "tool_use"

\* The text of a response of an evaluation backend.
ResponseText(b, r) == IF b = "ollama" THEN r.content ELSE JoinText(r.content)

\* Every backend call of the run returned, and returned a tool request.
AlwaysToolRequests ==
    /\ Len(eresp) = ecalls
    /\ \A j \in 1..Len(eresp) : IsToolRequest(backend, eresp[j])

\* C2: a run of BedrockBackend, ConverseBackend or OllamaBackend never makes
\* an 11th backend call, and when every call is answered with a tool request
\* the run ends only after exactly 10 calls, with 10 turns recorded, error
\* unset and final_text the text of the 10th response.
C2_TenTurnsThenDone ==
    /\ ecalls <= 10
    /\ (epc \in {"end", "done"} /\ AlwaysToolRequests) =>
          /\ ecalls = 10
          /\ Len(trace_turns) = 10
          /\ trace_error = "None"
    /\ (epc = "done" /\ AlwaysToolRequests) =>
          trace_final_text = ResponseText(backend, eresp[10])

\* A run answered with ten tool requests has returned, its tenth turn with text.
C2_Witness ==
    /\ epc = "done" /\ AlwaysToolRequests /\ ecalls = 10
    /\ trace_final_text = <<"a">> /\ trace_turns[1].text = NoText

\* C3: a handler task that has ended has invoked the reply capability of
\* its message.
C3_EndedImpliesReplied ==
    \A k \in TaskIds : tasks[k].pc = "done" => tasks[k].nreply >= 1

\* C4: a handler task invokes reply at most once, and sends at most one
\* outbound message per invocation.
C4_AtMostOneReply ==
    \A k \in TaskIds : tasks[k].nreply <= 1 /\ tasks[k].nposts <= tasks[k].nreply

\* An exchange has ended normally, its reply invoked once and one message out.
C4_Witness ==
    \E k \in TaskIds :
        tasks[k].pc = "done" /\ tasks[k].result = "ok" /\ tasks[k].nreply = 1
        /\ tasks[k].nposts = 1

HasTurn(thread_id, role, content) ==
    \E j \in 1..Len(conversations[thread_id]) :
        conversations[thread_id][j] = [role |-> role, content |-> content]

\* C5: when the backend call of an exchange failed, the ended handler has
\* appended the user turn and an assistant turn to the thread's history and
\* has invoked reply.
C5_BackendFailureAcknowledged ==
    \A k \in TaskIds :
        (tasks[k].pc = "done" /\ tasks[k].backend_failed) =>
            /\ HasTurn(tasks[k].msg.thread_id, "user", tasks[k].msg.text)
            /\ \E j \in 1..Len(conversations[tasks[k].msg.thread_id]) :
                   conversations[tasks[k].msg.thread_id][j].role = "assistant"
            /\ tasks[k].nreply = 1

\* The listener takes a step on the envelope at the head of the batch.
EnvelopeStep == lpc = "batch" /\ batch # << >> /\ (batch' # batch \/ lpc' = "react")

\* What the poll loop does with an envelope whose timestamp is in the pending
\* self-send set: it is skipped (no message built, no task created) and its
\* timestamp removed; a timestamp leaves the set only that way; and a
\* timestamp removed is not in the set again.
EchoStep ==
    /\ (EnvelopeStep /\ Head(batch).timestamp \in sent_timestamps) =>
          /\ tasks' = tasks /\ pending' = pending /\ lpc' # "react"
          /\ thread_map' = thread_map
          /\ batch' = Tail(batch)
          /\ sent_timestamps' = sent_timestamps \ {Head(batch).timestamp}
    /\ \A t \in sent_timestamps \ sent_timestamps' :
          EnvelopeStep /\ Head(batch).timestamp = t
    /\ (EnvelopeStep /\ Head(batch).timestamp \notin sent_timestamps) =>
          sent_timestamps' = sent_timestamps
    /\ \A t \in consumed' : t \notin sent_timestamps'

\* The envelopes the poll loop has still to look at.
Unprocessed == feed \o (IF lpc = "react" THEN Tail(batch) ELSE batch)

\* Every identifier in the pending self-send set still has its echo ahead.
EchoAhead ==
    \A t \in sent_timestamps :
        \E j \in 1..Len(Unprocessed) : Unprocessed[j].timestamp = t

\* C6: echo suppression.  An envelope whose timestamp is in the pending
\* self-send set is skipped without dispatch and removes the timestamp, a
\* timestamp is removed only by its echo and at most once, and each
\* identifier added to the set is removed by its echo: while it is in the set
\* the envelope that carries it is still to come.
C6_EchoSuppression == [][EchoStep]_vars /\ []EchoAhead

\* The timestamps the service gave the messages sent by reply.
ReplyTimestamps == {tasks[k].post_ts : k \in TaskIds} \ {None}

\* C7: no handler task is created for an envelope that carries the
\* timestamp of a message sent by reply.
C7_ReplyNeverDispatched ==
    \A k \in TaskIds : tasks[k].msg.msg_ts \notin ReplyTimestamps

\* The listener determines the thread of the envelope at the head of the batch.
ResolveStep == lpc = "batch" /\ lpc' = "react"

\* The thread ids in use.
UsedThreads ==
    {thread_map[key] : key \in DOMAIN thread_map}
        \cup {tasks[k].msg.thread_id : k \in TaskIds}

\* C8: a message quoting the timestamp of a message dispatched on thread T
\* is given thread T; a message quoting a timestamp absent from the map is
\* given a thread id not in use, without error; and the task created for a
\* message carries the thread determined for it.
C8_ThreadStep ==
    /\ ResolveStep =>
          LET quote_ts == Head(batch).quote IN
          /\ \A k \in TaskIds :
                (quote_ts # None /\ tasks[k].msg.msg_ts = quote_ts) =>
                    pending'.thread_id = tasks[k].msg.thread_id
          /\ (quote_ts # None /\ str(quote_ts) \notin DOMAIN thread_map) =>
                /\ pending'.thread_id \notin UsedThreads
                /\ pending'.thread_id # None
    /\ Len(tasks') # Len(tasks) =>
          /\ lpc = "react"
          /\ Len(tasks') = Len(tasks) + 1
          /\ tasks'[Len(tasks')].msg = pending

ReplySent(k) == tasks[k].post_ts # None /\ tasks[k].pc \in {"unreact", "done"}

\* C9: once the reply of an exchange on thread T has come back from its
\* send with timestamp s, a message quoting s is given thread T.
C9_ReplyStep ==
    ResolveStep =>
        \A k \in TaskIds :
            (ReplySent(k) /\ Head(batch).quote = tasks[k].post_ts) =>
                pending'.thread_id = tasks[k].msg.thread_id

Appended(k) == tasks[k].nreply >= 1

\* C10: when two messages of one thread, received one after the other, have
\* both been persisted and nothing else has, the history of the thread is
\* [user1, assistant1, user2, assistant2] in arrival order.
C10_HistoryInArrivalOrder ==
    \A j, k \in TaskIds :
        (/\ j < k
         /\ tasks[j].msg.thread_id = tasks[k].msg.thread_id
         /\ Appended(j) /\ Appended(k)
         /\ Len(conversations[tasks[j].msg.thread_id]) = 4) =>
            conversations[tasks[j].msg.thread_id] =
                <<[role |-> "user", content |-> tasks[j].msg.text],
                  [role |-> "assistant", content |-> ReplyText(tasks[j].msg.msg_ts)],
                  [role |-> "user", content |-> tasks[k].msg.text],
                  [role |-> "assistant", content |-> ReplyText(tasks[k].msg.msg_ts)]>>

\* Task k is between its history load and the end of its append-then-reply.
InExchange(k) == tasks[k].pc \in {"llm", "persist", "sending", "unreact"}

\* C11: two exchanges of one thread are never both between their history
\* load and the end of their append-then-reply.
C11_PerThreadMutualExclusion ==
    \A j, k \in TaskIds :
        (j # k /\ tasks[j].msg.thread_id = tasks[k].msg.thread_id) =>
            ~(InExchange(j) /\ InExchange(k))

\* An evaluation run has gone round its loop: the step fed tool results back.
EvalFeedsBack == epc = "loop" /\ messages' # messages

\* The tool-result batch a run of an evaluation backend feeds back in a step.
EvalFedBack ==
    IF backend = "ollama"
    THEN SubSeq(messages', Len(messages) + 2, Len(messages'))
    ELSE messages'[Len(messages')].content

\* No call id.
NoId == << >>

\* The call id a tool result of an evaluation backend carries.
ResultCallId(b, r) ==
    CASE b = "bedrock" -> r.tool_use_id
      [] b = "converse" -> r.toolResult.toolUseId
      [] OTHER -> IF "tool_call_id" \in DOMAIN r THEN r.tool_call_id ELSE NoId

\* LLM.complete of task k has gone round its loop in the step.
ChatFeedsBack(k) ==
    /\ k \in DOMAIN tasks' /\ tasks[k].pc = "llm" /\ tasks'[k].pc = "llm"
    /\ tasks'[k].ncalls = tasks[k].ncalls + 1

\* The assistant content and the tool results LLM.complete appended in the step.
ChatFedContent(k) == tasks'[k].history[Len(tasks'[k].history) - 1].content
ChatFedBack(k) == tasks'[k].history[Len(tasks'[k].history)].content

\* C12: whenever a loop feeds tool results back, the batch holds one result
\* per tool call of the turn, in the order of the calls, each with the id of
\* its call.
C12_RoundTripStep ==
    /\ EvalFeedsBack =>
          LET calls == trace_turns'[Len(trace_turns')].tool_calls IN
          /\ Len(EvalFedBack) = Len(calls)
          /\ \A j \in 1..Len(calls) : ResultCallId(backend, EvalFedBack[j]) = calls[j].id
    /\ \A k \in TaskIds :
          ChatFeedsBack(k) =>
              LET calls == SelectSeq(ChatFedContent(k), IsToolUse) IN
              /\ Len(ChatFedBack(k)) = Len(calls)
              /\ \A j \in 1..Len(calls) : ChatFedBack(k)[j].tool_use_id = calls[j].id

C12_ToolResultRoundTrip == [][C12_RoundTripStep]_vars

\* The tools the system defines.
KnownTools ==
    {"get_current_datetime", "web_search", "list_calendar_events",
     "create_calendar_event", "update_calendar_event"}

\* An evaluation run consumes, in the step, a response that makes its loop
\* go round.
EvalContinues ==
    /\ epc = "loop" /\ Len(eresp') = Len(eresp) + 1
    /\ IF backend = "ollama"
       THEN eresp'[Len(eresp')].tool_calls # << >>
       ELSE eresp'[Len(eresp')].stop_reason = "tool_use"

\* The content of a tool result of an evaluation backend: what mock_executor
\* returned (ConverseBackend wraps it in a text block when it is no JSON).
IsMockError(b, r, name) ==
    CASE b = "bedrock" -> r.content.of = "error" /\ r.content.tool = name
      [] b = "converse" ->
            /\ Len(r.toolResult.content) = 1
            /\ r.toolResult.content[1].kind = "text"
            /\ r.toolResult.content[1].val.of = "error"
            /\ r.toolResult.content[1].val.tool = name
      [] OTHER -> r.content.of = "error" /\ r.content.tool = name

\* C13: a tool call naming an unknown tool does not abort the loop.  In the
\* evaluation backends a response with such a call that makes the loop go
\* round is followed by the feeding back of results, with no error recorded,
\* and the loop stays in its cycle (unless that was the 10th turn); in
\* LLM.complete tool_executor never raises for it; and in all of them the
\* result fed back for that call is the payload describing the error.
C13_UnknownToolStep ==
    /\ EvalContinues =>
          LET calls == trace_turns'[Len(trace_turns')].tool_calls IN
          (\E j \in 1..Len(calls) : calls[j].name \notin KnownTools) =>
              /\ EvalFeedsBack
              /\ trace_error' = "None"
              /\ epc' = IF ecalls' = MAX_TURNS THEN "end" ELSE "loop"
              /\ Len(EvalFedBack) = Len(calls)
              /\ \A j \in 1..Len(calls) :
                    calls[j].name \notin KnownTools =>
                        IsMockError(backend, EvalFedBack[j], calls[j].name)
    /\ \A k \in TaskIds :
          /\ tasks'[k].tool_raised \in KnownTools \cup {""}
          /\ ChatFeedsBack(k) =>
                LET calls == SelectSeq(ChatFedContent(k), IsToolUse) IN
                /\ Len(ChatFedBack(k)) = Len(calls)
                /\ \A j \in 1..Len(calls) :
                      calls[j].name \notin KnownTools =>
                          /\ ChatFedBack(k)[j].content[2].kind = "error"
                          /\ ChatFedBack(k)[j].content[2].tool = calls[j].name

C13_UnknownToolFedBack == [][C13_UnknownToolStep]_vars

\* LLM.complete was given a call of an unknown tool, fed the error payload
\* back, made the next backend call and returned.
C13_Witness ==
    \E k \in TaskIds :
        /\ tasks[k].pc = "persist" /\ tasks[k].ncalls = 2
        /\ LET results == tasks[k].history[Len(tasks[k].history)].content IN
           /\ Len(results) = 2
           /\ results[2].content[2].kind = "error"
           /\ results[2].content[2].tool = "no_such_tool"

\* C14: when the collaborator of a tool raises, the exchange goes on: the
\* task is still in the agent loop, with the failure fed back as a result.
C14_ToolFailureFedBack ==
    \A k \in TaskIds : tasks[k].tool_raised # "" => tasks[k].pc = "llm"

\* C15: once a backend call of a run has raised, the run makes no further
\* backend call and executes no further tool, its error holds the exception
\* message, and the trace it returns has an empty final_text.
C15_BackendErrorAborts ==
    /\ trace_error # "None" =>
          /\ epc \in {"end", "done"}
          /\ trace_error = "backend error"
          /\ Len(eresp) = ecalls - 1
          /\ Len(trace_turns) = Len(eresp)
    /\ (epc = "done" /\ trace_error # "None") => trace_final_text = NoText

\* C16: a run that has ended without error has the text of its last turn as
\* final_text (empty when that turn holds only tool calls), and the text
\* LLM.complete returns is the text of its last response, to which the
\* handler adds the calendar confirmations.
C16_FinalTextIsLastTurn ==
    /\ (epc = "done" /\ trace_error = "None") =>
          /\ trace_turns # << >>
          /\ trace_final_text = trace_turns[Len(trace_turns)].text
          /\ trace_final_text = ResponseText(backend, eresp[Len(eresp)])
    /\ \A k \in TaskIds :
          tasks[k].pc = "persist" =>
              tasks[k].response =
                  ReplyText(tasks[k].msg.msg_ts) \o tasks[k].calendar_confirmations

\* A run has ended without error after two turns with different texts, and
\* final_text is the text of the second.
C16_Witness ==
    /\ epc = "done" /\ trace_error = "None" /\ Len(trace_turns) = 2
    /\ trace_turns[1].text = <<"a">> /\ trace_final_text = <<"b">>

\* An evaluation run consumes a response in the step.
EvalConsumes == epc = "loop" /\ Len(eresp') = Len(eresp) + 1

\* The stop reason of a response says the model has finished (OllamaBackend
\* reads no stop reason).
StopIndicatesCompletion(b, r) == b # "ollama" /\ r.stop_reason = "end_turn"

\* C17: a response without tool calls ends the loop whatever its stop
\* reason, and so does a response whose stop reason indicates completion,
\* tool calls or not: no tool-result batch is appended and no further call
\* made.  For LLM.complete: the loop goes round only on a response that
\* holds a tool call.
C17_DoneStep ==
    /\ EvalConsumes =>
          LET r == eresp'[Len(eresp')]
              calls == trace_turns'[Len(trace_turns')].tool_calls
          IN (calls = << >> \/ StopIndicatesCompletion(backend, r)) =>
                 /\ epc' = "end"
                 /\ messages' = messages
    /\ \A k \in TaskIds :
          ChatFeedsBack(k) => SelectSeq(ChatFedContent(k), IsToolUse) # << >>

C17_NoToolCallsMeansDone == [][C17_DoneStep]_vars

\* A text holds the separator line that opens a calendar confirmation block.
HasConfirmation(text) == \E i \in DOMAIN text : text[i] = "---"

\* The entries of the message list of task t that hold plain text (the
\* loaded lines and the user's message), and those LLM.complete appended
\* (two per tool round).
TextEntries(t) == SubSeq(t.history, 1, Len(t.history) - 2 * t.ncalls)

LoopEntries(t) == SubSeq(t.history, Len(t.history) - 2 * t.ncalls + 1, Len(t.history))

\* C18: no message list a task holds for the backend contains a calendar
\* confirmation block: not in a line loaded from the persisted history or
\* the user's message, not in a text block of an assistant message
\* appended by the loop.
C18_ConfirmationNeverFedToModel ==
    \A k \in TaskIds :
        tasks[k].pc = "llm" =>
            /\ \A i \in DOMAIN TextEntries(tasks[k]) :
                   ~HasConfirmation(TextEntries(tasks[k])[i].content)
            /\ \A i \in DOMAIN LoopEntries(tasks[k]) :
                   LoopEntries(tasks[k])[i].role = "assistant" =>
                       \A j \in DOMAIN LoopEntries(tasks[k])[i].content :
                           LET b == LoopEntries(tasks[k])[i].content[j] IN
                           ~IsToolUse(b) => ~HasConfirmation(b.text)

\* The two lines of a completed exchange of task k.
ExchangeLines(k) ==
    <<[role |-> "user", content |-> tasks[k].msg.text],
      [role |-> "assistant", content |-> tasks[k].response]>>

\* Task k invokes reply in the step.
ReplyInvoked(k) == tasks'[k].nreply = tasks[k].nreply + 1

\* C19: the persisted history changes only in a step of a handler whose
\* loop has completed; a handler that goes on to invoke reply has by then
\* appended to its thread the user turn and then the assistant turn (the
\* message text and the reply text) and nothing else; a handler that
\* invokes no reply (an append raised) has written the user turn at most;
\* no other thread changes.
C19_PersistStep ==
    /\ conversations' # conversations =>
          \E k \in DOMAIN tasks :
              /\ tasks[k].pc = "persist"
              /\ tasks'[k].pc # "persist"
              /\ \A t \in ThreadIds \ {tasks[k].msg.thread_id} :
                     conversations'[t] = conversations[t]
    /\ \A k \in DOMAIN tasks :
          tasks[k].pc = "persist" /\ tasks'[k].pc # "persist" =>
              LET T == tasks[k].msg.thread_id IN
              IF ReplyInvoked(k)
              THEN conversations'[T] = conversations[T] \o ExchangeLines(k)
              ELSE conversations'[T] \in
                       {conversations[T], conversations[T] \o <<ExchangeLines(k)[1]>>}
    /\ \A k \in DOMAIN tasks : ReplyInvoked(k) => tasks[k].pc = "persist"

C19_UserThenAssistantPersisted == [][C19_PersistStep]_vars

\* An exchange with a calendar tool round has replied, and its thread
\* holds its two lines only.
C19_Witness ==
    \E k \in TaskIds :
        /\ tasks[k].pc = "sending"
        /\ tasks[k].nreply = 1
        /\ HasConfirmation(tasks[k].response)
        /\ conversations[tasks[k].msg.thread_id] =
               <<[role |-> "user", content |-> tasks[k].msg.text],
                 [role |-> "assistant", content |-> tasks[k].response]>>

\* The handler of task k ends in its except clause in the step.
HandlerFails(k) == tasks[k].result = "running" /\ tasks'[k].result = "error"

\* The places of the poll loop of listen.
ListenerPlaces == {"poll", "batch", "react"}

\* C20: a step in which a handler ends with an exception leaves the
\* listener where it is, with its batch, the envelope it is working on and
\* the receive feed untouched, and the listener is never anywhere but in
\* its poll loop.
C20_FailureStep ==
    /\ \A k \in DOMAIN tasks :
          HandlerFails(k) => UNCHANGED <<lpc, batch, pending, feed>>
    /\ lpc' \in ListenerPlaces

C20_HandlerFailureContained == [][C20_FailureStep]_vars

\* One exchange has ended in the except clause and the listener is about to
\* dispatch a message that arrived after it.
C20_Witness ==
    /\ lpc = "react"
    /\ pending # NoMessage
    /\ \E k \in TaskIds :
          /\ tasks[k].result = "error"
          /\ tasks[k].nreply = 0
          /\ tasks[k].msg.msg_ts < pending.msg_ts

\* C21: the correlation map is stable.  A step never removes a key of the
\* map and never changes the thread a key is mapped to.
C21_MapStep ==
    \A key \in DOMAIN thread_map :
        key \in DOMAIN thread_map' /\ thread_map'[key] = thread_map[key]

C21_MapStability == [][C21_MapStep]_vars

\* C27: when the listener comes to the envelope that carries the timestamp
\* of a message a reply capability has sent (the reply has come back from
\* its send), the envelope is skipped: no thread is determined for it and
\* no message is built for the handler.  Replies to mails included.
C27_LoopbackStep ==
    \A k \in TaskIds :
        (EnvelopeStep /\ ReplySent(k) /\ Head(batch).timestamp = tasks[k].post_ts) =>
            /\ lpc' # "react"
            /\ pending' = pending
            /\ thread_map' = thread_map

C27_EveryReplyEchoDiscarded == [][C27_LoopbackStep]_vars

\* A sent sync message, not of a group, to the owner's own number, with a
\* text or at least one attachment.
Dispatchable(data) ==
    /\ data.sentMessage
    /\ ~data.group
    /\ data.destinationNumber = OWNER
    /\ (data.message # NoText \/ data.attachments # << >>)

\* The listener leaves the envelope at the head of the batch behind, or
\* goes on with it.
NormalizeStep ==
    /\ lpc = "batch" /\ batch # << >>
    /\ Head(batch).timestamp \notin sent_timestamps
    /\ (lpc' # "batch" \/ batch' # batch)

\* C22: _extract_message gives a result exactly for a sent sync message,
\* not of a group, to the owner's own number, with a text or an
\* attachment, and the result carries its text and attachments; the
\* listener goes on with such an envelope (to the downloads or to the
\* thread) and skips every other one, building no message and creating no
\* task for it; and every task of the chat channel was created for such a
\* payload.
C22_NormalizeStep ==
    /\ NormalizeStep =>
          LET data == Head(batch)
              result == _extract_message(data, OWNER)
          IN
          /\ result.ok <=> Dispatchable(data)
          /\ Dispatchable(data) =>
                /\ result.text = data.message
                /\ result.attachments = data.attachments
                /\ lpc' \in {"download", "react"}
                /\ batch' = batch
          /\ ~Dispatchable(data) =>
                /\ lpc' \in {"batch", "poll"}
                /\ batch' = Tail(batch)
                /\ pending' = pending
                /\ tasks' = tasks
    /\ Len(tasks') # Len(tasks) =>
          /\ lpc = "react"
          /\ Dispatchable(Head(batch))
          /\ tasks'[Len(tasks')].msg.text = Head(batch).message

C22_DispatchableExactly == [][C22_NormalizeStep]_vars

\* A message with an attachment and no text has been dispatched.
C22_Witness ==
    \E k \in TaskIds :
        /\ tasks[k].msg.text = NoText
        /\ tasks[k].msg.attachments # << >>
        /\ tasks[k].msg.msg_ts = 1

\* _download_attachment ends in the step, one way or another.
DownloadEnds == lpc = "download" /\ (lpc' # "download" \/ pending' # pending)

\* C23: however the download of an image ends, the listener goes on with
\* the message: it keeps the attachments it has, fetches the next image or,
\* after the last one, builds the message with the text of the envelope
\* and the attachments downloaded, which is then dispatched.
C23_DownloadStep ==
    DownloadEnds =>
        /\ lpc' \in {"download", "react"}
        /\ batch' = batch
        /\ \A i \in DOMAIN pending.attachments :
               /\ i \in DOMAIN pending'.attachments
               /\ pending'.attachments[i] = pending.attachments[i]
        /\ lpc' = "react" => pending'.text = Head(batch).message

C23_FailedDownloadNotFatal == [][C23_DownloadStep]_vars

\* The places of the poll loop of listen, downloads and back-off included.
PollLoopPlaces == {"poll", "backoff", "batch", "download", "react"}

Min(a, b) == IF a <= b THEN a ELSE b

\* The last min(n, 50) of the n lines, in their order.
LastTurns(lines) ==
    LET n == Len(lines)
        m == Min(n, 50)
    IN [i \in 1..m |-> lines[n - m + i]]

\* The handler of task k loads the history in the step.
LoadStep(k) == tasks[k].pc = "created" /\ tasks'[k].pc = "llm"

\* C25: store.load gives the last min(n, 50) of the n turns of the
\* thread, oldest first, and the empty list for a thread without history;
\* that is the history the handler starts the exchange with, before the
\* user turn.
C25_LoadStep ==
    /\ \A t \in ThreadIds : load(t) = LastTurns(conversations[t])
    /\ \A k \in DOMAIN tasks :
          LoadStep(k) =>
              tasks'[k].history =
                  Append(LastTurns(conversations[tasks[k].msg.thread_id]),
                         [role |-> "user", content |-> UserContent(tasks[k].msg)])

C25_LoadLastFifty == [][C25_LoadStep]_vars

\* A handler has loaded a thread of 52 turns: 50 of them, from the third.
C25_Witness ==
    \E k \in TaskIds :
        /\ tasks[k].pc = "llm" /\ tasks[k].ncalls = 0
        /\ Len(conversations[tasks[k].msg.thread_id]) = 52
        /\ Len(tasks[k].history) = 51
        /\ tasks[k].history[1].content = <<"m", "3">>
        /\ tasks[k].history[50].content = <<"m", "52">>

\* Lines i - 1 and i of thread t are the user turn and the assistant turn
\* of one exchange of that thread.
PairOfOneExchange(t, i) ==
    \E k \in TaskIds :
        /\ tasks[k].msg.thread_id = t
        /\ conversations[t][i - 1] = [role |-> "user", content |-> tasks[k].msg.text]
        /\ conversations[t][i] =
               [role |-> "assistant", content |-> ReplyText(tasks[k].msg.msg_ts)]

\* C26: in every thread's persisted history each assistant turn comes
\* directly after the user turn of its own exchange, whatever the
\* interleaving of the handler tasks.
C26_TurnsAdjacent ==
    \A t \in ThreadIds :
        \A i \in DOMAIN conversations[t] :
            conversations[t][i].role = "assistant" =>
                i > 1 /\ PairOfOneExchange(t, i)

\* Two exchanges of one thread ran at the same time and both persisted, the
\* one received second first.
C26_Witness ==
    \E j, k \in TaskIds :
        /\ j < k
        /\ tasks[j].msg.thread_id = tasks[k].msg.thread_id
        /\ conversations[tasks[j].msg.thread_id] =
               <<[role |-> "user", content |-> tasks[k].msg.text],
                 [role |-> "assistant", content |-> ReplyText(tasks[k].msg.msg_ts)],
                 [role |-> "user", content |-> tasks[j].msg.text],
                 [role |-> "assistant", content |-> ReplyText(tasks[j].msg.msg_ts)]>>

RECURSIVE HoldsTokens(_, _)
\* The tokens of part appear in text, one after the other.
HoldsTokens(text, part) ==
    IF Len(text) < Len(part) THEN FALSE
    ELSE IF SubSeq(text, 1, Len(part)) = part THEN TRUE
    ELSE HoldsTokens(Tail(text), part)

\* C28: the reply of an exchange that updated the event at the calendar
\* service, giving it another title, another start and another location,
\* shows each of the three as previous value -> new value.
C28_UpdateShowsOldAndNew ==
    \A k \in TaskIds :
        (tasks[k].pc = "persist"
         /\ HoldsTokens(tasks[k].response, <<"**Event Updated**">>)) =>
            /\ HoldsTokens(tasks[k].response,
                           <<"Title:", ExistingEvent.summary, "->", "Retro">>)
            /\ HoldsTokens(tasks[k].response,
                           (<<"Start:">> \o _fmt_time(ExistingEvent.start))
                               \o (<<"->">> \o _fmt_time("t3")))
            /\ HoldsTokens(tasks[k].response,
                           <<"Location:", ExistingEvent.location, "->", "Room 2">>)

\* The content of the user message of the exchange of task k in the message
\* list LLM.complete was given (two entries are added per tool round).
GivenToModel(k) ==
    tasks[k].history[Len(tasks[k].history) - 2 * (tasks[k].ncalls - 1)].content

\* The handler of task k writes to the history in the step.
PersistStep(k) ==
    /\ tasks[k].pc = "persist" /\ tasks'[k].pc # "persist"
    /\ conversations' # conversations

\* C29: the user turn a handler writes to the persisted history has the
\* content of the user message that was given to the model: the block list
\* for a message with attachments, the plain text without.
C29_PersistStep ==
    \A k \in DOMAIN tasks :
        PersistStep(k) =>
            LET T == tasks[k].msg.thread_id IN
            conversations'[T][Len(conversations[T]) + 1] =
                [role |-> "user", content |-> GivenToModel(k)]

C29_UserTurnAsGivenToModel == [][C29_PersistStep]_vars

\* C30: every assistant turn in a thread's persisted history is the text
\* of a reply of an exchange of that thread which the send primitive has
\* delivered (the service accepted the message).
C30_PersistedOnlyIfDelivered ==
    \A t \in ThreadIds :
        \A i \in DOMAIN conversations[t] :
            conversations[t][i].role = "assistant" =>
                \E k \in TaskIds :
                    /\ tasks[k].msg.thread_id = t
                    /\ conversations[t][i].content = ReplyText(tasks[k].msg.msg_ts)
                    /\ tasks[k].nposts >= 1

\* The identifiers registered so far, each with the thread it was registered
\* to: the timestamps of the messages the listener mapped, and those of the
\* replies whose reply capability has come back from its send.
Registered ==
    {<<tasks[k].msg.msg_ts, tasks[k].msg.thread_id>> : k \in TaskIds}
        \cup {<<tasks[k].post_ts, tasks[k].msg.thread_id>> :
                  k \in {j \in TaskIds : ReplySent(j)}}
        \cup (IF lpc = "react" THEN {<<pending.msg_ts, pending.thread_id>>} ELSE {})

\* C31: no update of the correlation map or of the pending self-send set is
\* lost.  Whatever the interleaving of the listener and the handler tasks,
\* every identifier registered is in the persisted map with the thread it
\* was registered to, and the timestamp of every reply that has come back
\* from its send has been put in the pending self-send set.
C31_NoLostUpdate ==
    /\ \A r \in Registered :
          str(r[1]) \in DOMAIN thread_map /\ thread_map[str(r[1])] = r[2]
    /\ \A k \in TaskIds :
          ReplySent(k) => tasks[k].post_ts \in sent_timestamps \cup consumed

\* Two exchanges on different threads were in flight together; the reply of
\* one has registered its timestamp while the other is still with the
\* backend, and the map holds the three identifiers.
C31_Witness ==
    \E j, k \in TaskIds :
        /\ tasks[j].msg.thread_id # tasks[k].msg.thread_id
        /\ ReplySent(k)
        /\ tasks[j].pc = "llm"
        /\ tasks[k].post_ts > tasks[j].msg.msg_ts
        /\ DOMAIN thread_map = {str(1), str(2), str(3)}

\* The next step of the exchange of task k can be taken: the history load,
\* a backend call that returns, the two appends with the reply's send (as
\* long as the service has a timestamp to give), the registration of the
\* sent timestamp, the removal of the reaction.
CanProceed(k) ==
    /\ tasks[k].pc = "created" => ENABLED HandlerStart(k)
    /\ (tasks[k].pc = "llm" /\ tasks[k].ncalls < MaxChatCalls) =>
          ENABLED LLMCall(k, MaxChatCalls, FALSE)
    /\ (tasks[k].pc = "persist" /\ nextTs <= MaxTs) => ENABLED PersistAndSend(k)
    /\ tasks[k].pc = "persist" => ENABLED PersistSendRejected(k)
    /\ tasks[k].pc = "sending" => ENABLED ReplyResume(k)
    /\ tasks[k].pc = "unreact" => ENABLED HandlerFinish(k)

BeforeFirstAppend(k) == tasks[k].pc \in {"created", "llm"}

\* The exchange of task k stopped in its loop: a backend call or a tool raised.
StoppedInLoop(k) ==
    tasks[k].pc = "done" /\ (tasks[k].backend_failed \/ tasks[k].tool_raised # "")

\* A step of an exchange that has not come to its first append, the step
\* in which it stops included, writes nothing to the store.
C33_Step ==
    \A k \in DOMAIN tasks :
        (BeforeFirstAppend(k) /\ tasks'[k] # tasks[k]) => conversations' = conversations

\* C33: an exchange writes no turn to the persisted history before its loop
\* has returned.  Every step it takes up to there leaves every thread's
\* history as it is, and an exchange that is before its first append, or
\* stopped in its loop, has neither its user turn nor its assistant turn in
\* the history of its thread.
C33_NothingWrittenBeforeAppend ==
    /\ [][C33_Step]_vars
    /\ [](\A k \in TaskIds :
            (BeforeFirstAppend(k) \/ StoppedInLoop(k)) =>
                /\ ~HasTurn(tasks[k].msg.thread_id, "user", tasks[k].msg.text)
                /\ ~HasTurn(tasks[k].msg.thread_id, "assistant",
                            ReplyText(tasks[k].msg.msg_ts)))

\* On a thread with one exchange persisted, a second exchange stopped in
\* its loop, and the history holds the two turns of the first, as before.
C33_Witness ==
    \E j, k \in TaskIds :
        /\ j < k
        /\ tasks[j].msg.thread_id = tasks[k].msg.thread_id
        /\ tasks[j].result = "ok"
        /\ StoppedInLoop(k)
        /\ conversations[tasks[k].msg.thread_id] =
               <<[role |-> "user", content |-> tasks[j].msg.text],
                 [role |-> "assistant", content |-> ReplyText(tasks[j].msg.msg_ts)]>>

\* The message list run() starts with.
RunInitialMessages == <<[role |-> "user", content |-> <<TextBlock(Prompt)>>]>>

\* A run of BedrockBackend has returned without error, its last response
\* with a stop reason other than tool_use.
BedrockRunEnded ==
    /\ backend = "bedrock" /\ epc = "done" /\ trace_error = "None"
    /\ eresp # << >> /\ eresp[Len(eresp)].stop_reason # "tool_use"

\* The message lists the run sent, one per call: run() only ever appends
\* two entries to its list after a call.
RunSent == [i \in 1..ecalls |-> SubSeq(messages, 1, Len(RunInitialMessages) + 2 * (i - 1))]

RECURSIVE RunExecuted(_)
\* The tool calls the run executed: those of the turns of the first n
\* responses, every one of which made the loop go round.
RunExecuted(n) ==
    IF n = 0 THEN << >> ELSE RunExecuted(n - 1) \o trace_turns[n].tool_calls

\* C34: BedrockBackend.run and LLM.complete are the same loop.  When a run
\* has ended on a response with a stop reason other than tool_use,
\* LLM.complete, given the run's initial message list, the run's tool
\* executor and the responses the run got, sends the same message lists,
\* executes the same tool calls in the same order, and returns the run's
\* final text.
C34_SameLoop ==
    BedrockRunEnded =>
        LET c == complete(RunInitialMessages, eresp, "mock_executor") IN
        /\ c.sent = RunSent
        /\ c.executed = RunExecuted(ecalls - 1)
        /\ c.text = trace_final_text

\* A run of three calls has ended: two tool rounds with different texts,
\* three tool calls executed, then the answer.
C34_Witness ==
    /\ BedrockRunEnded /\ ecalls = 3
    /\ trace_turns[1].text = <<"a">> /\ trace_turns[2].text = NoText
    /\ Len(RunExecuted(2)) = 3
    /\ trace_final_text = <<"b">>

\* The listener is at work on the envelope at the head of its batch.
AtEnvelope == lpc \in {"batch", "download", "react"} /\ batch # << >>

\* C35: a failure on one envelope of a batch stays with that envelope.
\* Whatever a step of the listener does with the envelope at the head of
\* the batch (skip it, dispatch it, fail on it), the envelopes behind it
\* stay in the batch to be processed; and a task is created only for the
\* envelope at the head, which is then left behind, so none is dispatched
\* twice.
C35_Step ==
    /\ AtEnvelope => batch' \in {batch, Tail(batch)}
    /\ Len(tasks') # Len(tasks) =>
          /\ AtEnvelope
          /\ tasks'[Len(tasks')].msg.msg_ts = Head(batch).timestamp
          /\ batch' = Tail(batch)

C35_FailureStaysWithEnvelope == [][C35_Step]_vars

\* The exchange of task k has made its first append and not its second: the
\* user turn is in the history of its thread, the assistant turn is not.
BetweenAppends(k) ==
    /\ HasTurn(tasks[k].msg.thread_id, "user", tasks[k].msg.text)
    /\ ~HasTurn(tasks[k].msg.thread_id, "assistant", ReplyText(tasks[k].msg.msg_ts))

\* The history has even length and alternates user, assistant from a user turn.
Alternates(lines) ==
    /\ Len(lines) % 2 = 0
    /\ \A i \in DOMAIN lines :
          lines[i].role = IF i % 2 = 1 THEN "user" ELSE "assistant"

\* C36: whenever no exchange is between its two appends, every thread's
\* persisted history has even length and alternates user, assistant,
\* starting with a user turn, whatever the interleaving of the exchanges.
C36_HistoryAlternates ==
    (\A k \in TaskIds : ~BetweenAppends(k)) =>
        \A t \in ThreadIds : Alternates(conversations[t])

\* Two exchanges of one thread, in flight together, have both persisted and
\* ended, and the thread holds four turns.
C36_Witness ==
    \E j, k \in TaskIds :
        /\ j < k
        /\ tasks[j].msg.thread_id = tasks[k].msg.thread_id
        /\ tasks[j].pc = "done" /\ tasks[k].pc = "done"
        /\ tasks[j].nposts + tasks[k].nposts = 1
        /\ Len(conversations[tasks[j].msg.thread_id]) = 4
        /\ \A i \in TaskIds : ~BetweenAppends(i)

\* The contents the backend emits with stop reason tool_use in the
\* exchange of the message with timestamp msg_ts.
EmittedToolTurns(msg_ts) ==
    {r.content : r \in {x \in ToolStudyResponses(msg_ts) : x.stop_reason = "tool_use"}}

\* C37: the assistant turn LLM.complete feeds back is the turn the backend
\* emitted.  Every assistant message the loop has appended to the message
\* list has the content of a response of the backend, each tool_use block
\* with its name, id and input, and the input of an update_calendar_event
\* block holds event_id.
C37_AssistantTurnUnchanged ==
    \A k \in TaskIds :
        tasks[k].pc = "llm" =>
            \A i \in DOMAIN LoopEntries(tasks[k]) :
                LoopEntries(tasks[k])[i].role = "assistant" =>
                    /\ LoopEntries(tasks[k])[i].content
                           \in EmittedToolTurns(tasks[k].msg.msg_ts)
                    /\ \A j \in DOMAIN LoopEntries(tasks[k])[i].content :
                           LET b == LoopEntries(tasks[k])[i].content[j] IN
                           b.name = "update_calendar_event" => HasEventId(b.input)

\* C38: the hourglass is taken off again.  Once the handling of a message
\* has ended, however it ended, the message does not carry the reaction
\* the listener put on it.
C38_ReactionReleased ==
    \A k \in TaskIds :
        tasks[k].pc = "done" => tasks[k].msg.msg_ts \notin reactions

\* C39: mails of one sender and subject are handled on one thread, the
\* mail thread, and once the reply to a mail has come back from its send
\* with timestamp s, a chat message quoting s is given the mail thread.
C39_MailStep ==
    /\ \A j, k \in MailTasks : tasks[j].msg.thread_id = tasks[k].msg.thread_id
    /\ ResolveStep =>
          \A k \in MailTasks :
              (ReplySent(k) /\ Head(batch).quote = tasks[k].post_ts) =>
                  pending'.thread_id = EmailThread

C39_QuoteOfMailReplyOnMailThread == [][C39_MailStep]_vars
====
